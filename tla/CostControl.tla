---------------------------- MODULE CostControl ----------------------------
(***************************************************************************)
(* CostController (zilli/envs/cost_controller.py) over                     *)
(* DynamicSOTAScheduler (zilli/adaptive/sota_scheduler.py): the processes  *)
(* that share one budget file, each with the budget in memory, and their   *)
(* clients (the evaluation loop of zilli/cli.py, the threads of            *)
(* SkillEvolutionPipeline), which ask, make the call and record it.        *)
(*                                                                         *)
(* X_y, just above X, is X with a plausible bug (a mutant).                *)
(***************************************************************************)
EXTENDS Integers, FiniteSets

CONSTANTS Processes,   \* the processes with a CostController on the file
          Clients,     \* the coroutines and threads that use one
          ProcessOf,   \* the process of a client
          Monthly,     \* monthly_budget
          Cost,        \* cost_per_call of the planner; 0 when the profile
                       \* names its models otherwise
          Num, Den,    \* max_sota_ratio = Num / Den
          MaxCalls     \* bound: calls recorded in one life of a process, and
                       \* SOTA calls it may know of

ASSUME CostAssumption ==
  /\ IsFiniteSet(Clients)
  /\ ProcessOf \in [Clients -> Processes]
  /\ Monthly \in Nat /\ Cost \in Nat
  /\ Num \in Nat /\ Den \in Nat \ {0}
  /\ MaxCalls \in Nat

VARIABLES mem,       \* the scheduler of each process
          samples,   \* task_stats: the calls recorded, SOTA or not
          debounce,  \* whether the last debounced save is under 5 s old
          file,      \* what the budget file holds
          phase,     \* what each client is doing
          data       \* what a client in _save is about to write (Fresh outside)

vars == <<mem, samples, debounce, file, phase, data>>

Fresh == [remaining |-> Monthly, total |-> 0]

\* A file that does not parse: truncated, or with the tail of a longer write.
Unreadable == [remaining |-> Monthly, total |-> -1]

\* _load: an absent or unreadable file leaves the defaults; the hour is not
\* in the file.
Load == [remaining |-> IF file = Unreadable THEN Monthly ELSE file.remaining,
         total |-> IF file = Unreadable THEN 0 ELSE file.total,
         hour |-> 0]

Init ==
  /\ file = Unreadable
  /\ mem = [p \in Processes |-> Load]
  /\ samples = [p \in Processes |-> 0]
  /\ debounce = [p \in Processes |-> FALSE]
  /\ phase = [c \in Clients |-> "idle"]
  /\ data = [c \in Clients |-> Fresh]

-----------------------------------------------------------------------------
(* DynamicSOTAScheduler.                                                   *)

\* _sota_ratio_exceeded: a float quotient, no division when there are no calls.
RatioExceeded_Never(p) == FALSE
RatioExceeded(p) == mem[p].total # 0 /\ mem[p].hour * Den > Num * mem[p].total

\* record_call("planner"): under the lock.
RecordCall(p) ==
  /\ mem' = [mem EXCEPT ![p] = [remaining |-> @.remaining - Cost,
                                total |-> @.total + 1, hour |-> @.hour + 1]]
  /\ samples' = [samples EXCEPT ![p] = @ + 1]

\* record_without_sota: under the lock; only the statistics of the task type.
RecordWithoutSota(p) ==
  /\ samples' = [samples EXCEPT ![p] = @ + 1]
  /\ UNCHANGED mem

-----------------------------------------------------------------------------
(* CostController.                                                         *)

Goto(c, ph) == phase' = [phase EXCEPT ![c] = ph]

\* should_use_planner: over the ratio no; else as difficulty, confidence, the
\* emergency mode, the quota and the sampled threshold have it.
Check(c) ==
  LET p == ProcessOf[c]
  IN /\ phase[c] = "idle"
     /\ samples[p] < MaxCalls /\ mem[p].total < MaxCalls
     /\ \/ Goto(c, "executor")
        \/ ~RatioExceeded(p) /\ Goto(c, "planner")
     /\ UNCHANGED <<mem, samples, debounce, file, data>>

\* record_planner_call or record_executor_call, with what _debounced_save
\* decides: nothing is saved, nor will be later, within 5 s of a save.
Record(c) ==
  LET p == ProcessOf[c]
  IN /\ \/ phase[c] = "planner" /\ RecordCall(p)
        \/ phase[c] = "executor" /\ RecordWithoutSota(p)
     /\ Goto(c, IF debounce[p] THEN "idle" ELSE "save")
     /\ debounce' = [debounce EXCEPT ![p] = TRUE]
     /\ UNCHANGED <<file, data>>

\* time.time() has passed 5 s since the last debounced save.
DebounceEnds(p) ==
  /\ debounce[p]
  /\ debounce' = [debounce EXCEPT ![p] = FALSE]
  /\ UNCHANGED <<mem, samples, file, phase, data>>

\* _save, first half: the budget is read and open(..., "w") truncates the
\* file, before flock.  The fields are read without the lock; that they are of
\* one moment relies on the GIL: neither these reads (cost_controller.py:76)
\* nor the writes of record_call and reset_monthly have a call or a jump back
\* between them, where CPython lets another thread go on.
Truncate(c) ==
  /\ phase[c] = "save"
  /\ data' = [data EXCEPT ![c] = [remaining |-> mem[ProcessOf[c]].remaining,
                                  total |-> mem[ProcessOf[c]].total]]
  /\ file' = Unreadable
  /\ Goto(c, "write")
  /\ UNCHANGED <<mem, samples, debounce>>

\* _save, second half, under flock: written from offset 0, over what another
\* process may have written since, whose tail stays when it is longer.
Write(c) ==
  /\ phase[c] = "write"
  /\ file' \in {data[c]} \cup (IF file = Unreadable THEN {} ELSE {Unreadable})
  /\ data' = [data EXCEPT ![c] = Fresh]
  /\ Goto(c, "idle")
  /\ UNCHANGED <<mem, samples, debounce>>

\* reset_monthly (`zilli cost reset-month`, POST /v1/cost/reset-month): saved
\* at once.  No client of the process is recording then.
ResetMonthly_KeepTotal(c) ==
  LET p == ProcessOf[c]
  IN /\ phase[c] = "idle"
     /\ mem' = [mem EXCEPT ![p] = [@ EXCEPT !.remaining = Monthly, !.hour = 0]]
     /\ Goto(c, "save")
     /\ UNCHANGED <<samples, debounce, file, data>>
ResetMonthly(c) ==
  LET p == ProcessOf[c]
  IN /\ phase[c] = "idle"
     /\ mem' = [mem EXCEPT ![p] = [remaining |-> Monthly, total |-> 0, hour |-> 0]]
     /\ Goto(c, "save")
     /\ UNCHANGED <<samples, debounce, file, data>>

\* reset_hourly: only the memory.
ResetHourly(p) ==
  /\ mem[p].hour > 0
  /\ mem' = [mem EXCEPT ![p].hour = 0]
  /\ UNCHANGED <<samples, debounce, file, phase, data>>

\* The process ends, at any point of _save too, and a new one loads the file.
Restart(p) ==
  /\ mem' = [mem EXCEPT ![p] = Load]
  /\ samples' = [samples EXCEPT ![p] = 0]
  /\ debounce' = [debounce EXCEPT ![p] = FALSE]
  /\ phase' = [c \in Clients |-> IF ProcessOf[c] = p THEN "idle" ELSE phase[c]]
  /\ data' = [c \in Clients |-> IF ProcessOf[c] = p THEN Fresh ELSE data[c]]
  /\ UNCHANGED file

Next == \/ \E c \in Clients : Check(c) \/ Record(c) \/ Truncate(c) \/ Write(c)
                              \/ ResetMonthly(c)
        \/ \E p \in Processes : DebounceEnds(p) \/ ResetHourly(p) \/ Restart(p)

Spec == Init /\ [][Next]_vars

-----------------------------------------------------------------------------
(* Properties.                                                             *)

TypeOK ==
  /\ mem \in [Processes -> [remaining : Int, total : Nat, hour : Nat]]
  /\ samples \in [Processes -> Nat]
  /\ debounce \in [Processes -> BOOLEAN]
  /\ file \in [remaining : Int, total : Nat] \cup {Unreadable}
  /\ phase \in [Clients -> {"idle", "planner", "executor", "save", "write"}]
  /\ data \in [Clients -> [remaining : Int, total : Nat]]

\* Money and calls agree, in every process and in the file, whatever was
\* lost, overwritten by another process, reset or restarted: what is spent is
\* the cost of the calls that are counted.
Ledger ==
  /\ \A p \in Processes : mem[p].remaining + Cost * mem[p].total = Monthly
  /\ file # Unreadable => file.remaining + Cost * file.total = Monthly

\* The hourly SOTA share: checked before the call and counted after it, it
\* overshoots by no more than one call per client that was let through, the
\* calls under way included, and restarts, resets and a total taken over from
\* another process do not add up.
HourlyRatio ==
  \A p \in Processes :
    LET own == {c \in Clients : ProcessOf[c] = p}
        underWay == {c \in own : phase[c] = "planner"}
    IN (mem[p].hour + Cardinality(underWay)) * Den
         <= Num * mem[p].total + Cardinality(own) * Den

\* "if sota_calls / total_calls >= max_sota_ratio: return False"
\* (docs/reference-routing.md): while the SOTA calls, which are all that
\* `total` counts, are a smaller share of all calls than the limit, the ratio
\* does not close the planner.
GateAsDocumented ==
  \A p \in Processes : mem[p].total * Den < Num * samples[p] => ~RatioExceeded(p)
=============================================================================
