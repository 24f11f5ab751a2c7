----------------------------- MODULE LoopRunner -----------------------------
(***************************************************************************)
(* The verified loop of zilli/loops: LoopRunner.run with its retries,      *)
(* memory and curated context; run_forever; and MetaLoopRunner, which      *)
(* tunes the retries and has the HarnessOrchestrator evolve the harness    *)
(* from the failures the WeaknessMiner clusters.  One coroutine, a step is *)
(* the code between two awaits.  A cycle is its number and how it ended.   *)
(***************************************************************************)
EXTENDS Integers, Sequences, FiniteSets, SequencesExt

CONSTANTS
  VerifierLists,   \* the verifiers a loop may be given, and whether all must pass
  LoopRetries,     \* max_retries of the LoopRunner
  RetryCeiling,    \* what tuning raises it to at most: 10 in the code
  MemorySize,      \* max_entries of the CycleMemory
  MaxBullets,      \* the bullets _prune keeps
  MinCluster,      \* min_cluster_size
  TraceCap,        \* the traces a MetaLoopRunner keeps
  MetaIterations,  \* max_meta_iterations
  HeldIn, HeldOut, \* the evaluation tasks of the harness
  Improvement,     \* improvement_threshold, in percent
  MaxLoopCycles,   \* bound: cycles of all runs
  MaxLoopRestarts  \* bound: processes that end

ASSUME LoopAssumption ==
  /\ LoopRetries \in Nat /\ RetryCeiling \in Nat \ {0} /\ MemorySize \in Nat \ {0}
  /\ MaxBullets \in Nat /\ MinCluster \in Nat \ {0} /\ TraceCap \in Nat
  /\ MetaIterations \in Nat /\ Improvement \in Nat /\ IsFiniteSet(HeldIn) /\ IsFiniteSet(HeldOut)

VARIABLES
  loop,    \* the runner: where it is, mode, attempt, cycles of this run, retries, best result
  memory,  \* CycleMemory: entries and file; and history: cycles that ended, whether a save failed
  mining,  \* traces of the meta loop, the miner's records, the curator's bullets and its file
  harness  \* the accepted candidates of the HarnessOrchestrator, and the number of rejected edits

loopVars == <<loop, memory, mining, harness>>

NoResult == [success |-> FALSE, retries |-> -1]
TornContext == <<[about |-> "torn", hits |-> 0]>>

Unrun(mode, verifiers, evolves) ==
  [pc |-> "idle", mode |-> mode, verifiers |-> verifiers, evolves |-> evolves, attempt |-> 0, count |-> 0,
   ran |-> <<>>, retries |-> LoopRetries, streak |-> 0, iteration |-> 0, best |-> NoResult,
   result |-> NoResult, ended |-> {}, restarts |-> 0]
Unmined == [traces |-> <<>>, records |-> <<>>, bullets |-> <<>>, file |-> <<>>, dropped |-> FALSE]

LoopFresh ==
  /\ memory = [entries |-> <<>>, file |-> <<>>, serial |-> 0, faulty |-> FALSE]
  /\ mining = Unmined
  /\ harness = [history |-> <<>>, rejected |-> 0]
LoopIdle == loop = Unrun("once", [list |-> <<>>, all |-> TRUE], FALSE) /\ LoopFresh
LoopInit ==
  /\ \E mode \in {"once", "forever", "meta"}, v \in VerifierLists, evolves \in BOOLEAN :
       loop = Unrun(mode, v, evolves)
  /\ LoopFresh

-----------------------------------------------------------------------------
(* Verifiers *)

\* What a verifier makes of an event: the output is good, bad (or the command timed out, or the file of
\* the skill is missing), or the check is broken. Only a skill file that is not UTF-8 raises.
Verdict(kind, event) ==
  CASE event = "good" -> "pass"
    [] event = "broken" /\ kind = "skill" -> "raise"
    [] OTHER -> "fail"

\* CompositeVerifier: gather raises if one does; without verifiers everything passes.
Composite(v, events) ==
  LET verdicts == {Verdict(v.list[i], events[i]) : i \in DOMAIN v.list} IN
  CASE v.list = <<>> -> "pass"
    [] "raise" \in verdicts -> "raise"
    [] v.list # <<>> /\ "raise" \notin verdicts ->
         IF (IF v.all THEN verdicts = {"pass"} ELSE "pass" \in verdicts) THEN "pass" ELSE "fail"

-----------------------------------------------------------------------------
(* Memory, curator and miner *)

LastOf(s, n) == IF Len(s) <= n THEN s ELSE SubSeq(s, Len(s) - n + 1, Len(s))

\* What s has at the places in I, in order.
Selected(s, I) ==
  LET At(k) == CHOOSE i \in I : Cardinality({j \in I : j <= i}) = k
  IN [k \in 1 .. Cardinality(I) |-> s[At(k)]]

\* CycleMemory.add: the deque drops its oldest entry; _save replaces the file, or fails silently.
Remembered(mem, cycle) ==
  LET entries == LastOf(Append(mem.entries, cycle), MemorySize) IN
  LET now == [mem EXCEPT !.entries = entries, !.serial = @ + 1] IN
  {[now EXCEPT !.file = entries], [now EXCEPT !.faulty = TRUE]}

\* success_rate(n) as the passes among the last n entries, and their number.
PassedOf(n) == LET last == LastOf(memory.entries, n) IN Cardinality({i \in DOMAIN last : last[i].kind = "passed"})
NumberOf(n) == Len(LastOf(memory.entries, n))

\* reflect: a pitfall for an evidence that has none yet; _prune keeps the first of those with most hits.
Pruned(bullets) ==
  IF Len(bullets) <= MaxBullets THEN bullets
  ELSE SubSeq(SortSeq(bullets, LAMBDA a, b : a.hits > b.hits), 1, MaxBullets)
Reflected(bullets, evidence) ==
  IF \E i \in DOMAIN bullets : bullets[i].about = evidence THEN bullets
  ELSE Pruned(Append(bullets, [about |-> evidence, hits |-> 0]))

\* _curate_trajectory: only every third cycle of the process, if it failed; written in place or not at all.
Curated(m, cycle) ==
  IF loop.count % 3 # 0 THEN {m}
  ELSE LET bullets == Reflected(m.bullets, cycle.kind)
       IN {[m EXCEPT !.bullets = bullets, !.file = bullets], [m EXCEPT !.bullets = bullets]}

\* ingest: what is there by task and time, or came earlier, is left out.
Unseen(records, traces) ==
  {i \in DOMAIN traces : ~Contains(records, traces[i]) /\ \A j \in 1 .. i - 1 : traces[j] # traces[i]}
Ingested(records, traces) == records \o Selected(traces, Unseen(records, traces))

\* cluster_failures: by the way of failing; small clusters are left out.
Clusters(records) ==
  {k \in {"failed", "error"} : Cardinality({i \in DOMAIN records : records[i].kind = k}) >= MinCluster}

FailedOf(cycles) == Selected(cycles, {i \in DOMAIN cycles : cycles[i].kind # "passed"})

-----------------------------------------------------------------------------
(* LoopRunner.run *)

\* A cycle begins: _cycle_count goes up, process_fn is awaited.
Began(l) == [l EXCEPT !.pc = "processing", !.count = @ + 1]

RunBegins ==
  /\ loop.pc = "idle" /\ memory.serial < MaxLoopCycles
  /\ loop' = Began([loop EXCEPT !.attempt = 0, !.ran = <<>>])
  /\ UNCHANGED <<memory, mining, harness>>

ThisCycle(kind) == [n |-> memory.serial + 1, kind |-> kind]

\* A cycle that failed: remembered; then the pause before the next attempt, or the escalation.
CycleFails(kind) ==
  /\ memory' \in Remembered(memory, ThisCycle(kind))
  /\ mining' \in Curated(mining, ThisCycle(kind))
  /\ loop' = [loop EXCEPT !.ran = Append(@, ThisCycle(kind)),
                          !.pc = IF loop.attempt < loop.retries THEN "pausing" ELSE "escalating"]
  /\ UNCHANGED harness

ProcessEnds ==
  /\ loop.pc = "processing"
  /\ \/ loop' = [loop EXCEPT !.pc = "verifying"] /\ UNCHANGED <<memory, mining, harness>>
     \/ CycleFails("error")

\* The verdict; after a failure correction_fn may raise, which counts as an error.
VerifierEnds ==
  /\ loop.pc = "verifying"
  /\ \E events \in [DOMAIN loop.verifiers.list -> {"good", "bad", "broken"}] :
       LET verdict == Composite(loop.verifiers, events) IN
       \/ /\ verdict = "pass"
          /\ memory' \in Remembered(memory, ThisCycle("passed"))
          /\ loop' = [loop EXCEPT !.ran = Append(@, ThisCycle("passed")), !.pc = "ended",
                                  !.result = [success |-> TRUE, retries |-> loop.attempt]]
          /\ UNCHANGED <<mining, harness>>
       \/ verdict = "fail" /\ CycleFails("failed")
       \/ verdict \in {"fail", "raise"} /\ CycleFails("error")

PauseEnds ==
  /\ loop.pc = "pausing" /\ memory.serial < MaxLoopCycles
  /\ loop' = Began([loop EXCEPT !.attempt = @ + 1])
  /\ UNCHANGED <<memory, mining, harness>>

\* The handler is awaited, and what it raises is logged.
EscalationEnds ==
  /\ loop.pc = "escalating"
  /\ loop' = [loop EXCEPT !.pc = "ended", !.result = [success |-> FALSE, retries |-> loop.retries]]
  /\ UNCHANGED <<memory, mining, harness>>

-----------------------------------------------------------------------------
(* run_forever *)

\* A failed run is mined; too many in a row stop the loop, otherwise the trigger is awaited.
ForeverGoesOn ==
  /\ loop.pc = "ended" /\ loop.mode = "forever"
  /\ LET streak == IF loop.result.success THEN 0 ELSE loop.streak + 1 IN
     /\ loop' = [loop EXCEPT !.streak = streak, !.pc = IF streak >= loop.retries + 1 THEN "stopped" ELSE "waiting"]
     /\ mining' = IF loop.result.success THEN mining
                  ELSE [mining EXCEPT !.records = Ingested(@, FailedOf(loop.ran))]
  /\ UNCHANGED <<memory, harness>>

\* FixedIntervalTrigger and DynamicIntervalTrigger go on, EventTrigger may time out.
TriggerEnds ==
  /\ loop.pc = "waiting"
  /\ \E pc \in {"idle", "stopped"} : loop' = [loop EXCEPT !.pc = pc]
  /\ UNCHANGED <<memory, mining, harness>>

-----------------------------------------------------------------------------
(* MetaLoopRunner.run and HarnessOrchestrator *)

BetterRun(result, best) ==
  \/ best = NoResult
  \/ result.success /\ (~best.success \/ result.retries < best.retries)

\* _tune, by the last ten cycles.
Tuned(retries) ==
  LET failures == NumberOf(10) - PassedOf(10) IN
  CASE 2 * failures > NumberOf(10) -> IF retries < RetryCeiling THEN retries + 1 ELSE RetryCeiling
    [] 5 * failures < NumberOf(10) /\ retries > 1 -> retries - 1
    [] OTHER -> retries

Converged == loop.result.success /\ 10 * PassedOf(20) >= 9 * NumberOf(20)

\* The end of an iteration: converged, or tuned and on to the next.
IterationEnds(l) ==
  IF Converged THEN [l EXCEPT !.pc = "stopped"]
  ELSE [l EXCEPT !.retries = Tuned(l.retries), !.iteration = @ + 1,
                 !.pc = IF l.iteration + 1 = MetaIterations THEN "stopped" ELSE "idle"]

\* The run is compared with the best; its traces join the buffer, which drops its oldest; and with a
\* cluster of failures, however old, edits are proposed and their validation is awaited.
MetaCollects ==
  /\ loop.pc = "ended" /\ loop.mode = "meta"
  /\ LET traces == mining.traces \o FailedOf(loop.ran)
         kept   == LastOf(traces, TraceCap)
         l      == [loop EXCEPT !.best = IF BetterRun(loop.result, loop.best) THEN loop.result ELSE @,
                                !.ended = @ \cup {loop.result}]
         records == IF loop.evolves THEN Ingested(mining.records, kept) ELSE mining.records
     IN /\ mining' = [mining EXCEPT !.traces = kept, !.records = records,
                                    !.dropped = @ \/ Len(traces) > TraceCap]
        /\ loop' = IF loop.evolves /\ Clusters(records) # {} THEN [l EXCEPT !.pc = "validating"] ELSE IterationEnds(l)
  /\ UNCHANGED <<memory, harness>>

\* A rate in percent: tasks that crash drop out, and without any other it is full.
PassRate(outcome) ==
  LET finished == {t \in DOMAIN outcome : outcome[t] # "crash"} IN
  IF finished = {} THEN 100
  ELSE (100 * Cardinality({t \in finished : outcome[t] = "pass"})) \div Cardinality(finished)

\* _validate's decision: better by the threshold, and on the held-out tasks not below the version before,
\* which for the first one is full.
AcceptsEdit_AnyFirst(in, out) ==
  LET previous == IF harness.history = <<>> THEN [in |-> 0, out |-> 0] ELSE Last(harness.history)
  IN in - previous.in >= Improvement /\ out >= previous.out
AcceptsEdit(in, out) ==
  LET previous == IF harness.history = <<>> THEN [in |-> 0, out |-> 100] ELSE Last(harness.history)
  IN in - previous.in >= Improvement /\ out >= previous.out

\* The tasks have run: a version is added and the traces are dropped, or the edits are rejected. The
\* miner keeps its records.
ValidationEnds ==
  /\ loop.pc = "validating"
  /\ \E in \in [HeldIn -> {"pass", "fail", "crash"}], out \in [HeldOut -> {"pass", "fail", "crash"}] :
       IF AcceptsEdit(PassRate(in), PassRate(out))
       THEN /\ harness' = [harness EXCEPT !.history =
                             Append(@, [in |-> PassRate(in), out |-> PassRate(out)])]
            /\ mining' = [mining EXCEPT !.traces = <<>>]
       ELSE /\ harness' = [harness EXCEPT !.rejected = @ + Cardinality(Clusters(mining.records))]
            /\ UNCHANGED mining
  /\ loop' = IterationEnds(loop)
  /\ UNCHANGED memory

\* ContextCurator.get: every bullet that is handed out counts a hit (bound: one each).
Consult ==
  /\ loop.pc = "idle" /\ mining.bullets # <<>> /\ \E i \in DOMAIN mining.bullets : mining.bullets[i].hits = 0
  /\ LET bullets == [i \in DOMAIN mining.bullets |-> [mining.bullets[i] EXCEPT !.hits = 1]]
     IN mining' \in {[mining EXCEPT !.bullets = bullets, !.file = f] : f \in {bullets, mining.file}}
  /\ UNCHANGED <<loop, memory, harness>>

\* The process ends, maybe in the middle of writing the context, and starts again with its files.
LoopRestarts ==
  /\ loop.pc \notin {"stopped", "idle"} /\ loop.restarts < MaxLoopRestarts
  /\ loop' = [Unrun(loop.mode, loop.verifiers, loop.evolves) EXCEPT !.restarts = loop.restarts + 1]
  /\ memory' = [memory EXCEPT !.entries = memory.file]
  /\ \E file \in {mining.file, TornContext} :
       mining' = [Unmined EXCEPT !.bullets = IF file = TornContext THEN <<>> ELSE file, !.file = file]
  /\ harness' = [history |-> <<>>, rejected |-> 0]

LoopNext ==
  \/ RunBegins \/ ProcessEnds \/ VerifierEnds \/ PauseEnds \/ EscalationEnds
  \/ ForeverGoesOn \/ TriggerEnds \/ MetaCollects \/ ValidationEnds \/ Consult \/ LoopRestarts

LoopSpec == LoopInit /\ [][LoopNext]_loopVars

-----------------------------------------------------------------------------
(* Properties *)

\* Each cycle is remembered once and in order, through a full memory, saves that fail and restarts, and
\* none is missing while the saves go well; each failure is mined once although the traces are handed
\* over again and again (runner.py:196, memory.py:31, failure_analyzer.py:81).
CyclesOnce ==
  /\ \A i \in 2 .. Len(memory.entries) : memory.entries[i - 1].n < memory.entries[i].n
  /\ \A i, j \in DOMAIN mining.records : mining.records[i] = mining.records[j] => i = j
  /\ ~memory.faulty =>
       \A i \in DOMAIN memory.entries : memory.entries[i].n = memory.serial - Len(memory.entries) + i

\* What a meta run returns is the best of its runs; and a harness that was accepted passed every
\* held-out task that did not crash, back to the first, with the held-in rate rising each time
\* (runner.py:273, harness_orchestrator.py:204).
MetaSound ==
  /\ loop.ended # {} =>
       /\ loop.best \in loop.ended
       /\ \A r \in loop.ended : r.success => loop.best.success /\ loop.best.retries <= r.retries
  /\ \A i \in DOMAIN harness.history :
       /\ harness.history[i].out = 100
       /\ i > 1 => harness.history[i].in >= harness.history[i - 1].in + Improvement

\* The loop, its memory and its meta loop are sound.
LoopSound == CyclesOnce /\ MetaSound
=============================================================================
