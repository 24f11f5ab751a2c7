--------------------------- MODULE RolloutScheduler ---------------------------
(***************************************************************************)
(* AsyncRolloutScheduler (zilli/infra/async_scheduler.py).  schedule runs  *)
(* a batch of tasks, each in a coroutine of its own that retries after an  *)
(* error or a timeout, and waits for all of them or for the end of its     *)
(* window; what is unfinished then is cancelled.  cancel(id) may come at   *)
(* any time, from whoever holds the scheduler, and holds for ever.  An     *)
(* action is the code between two awaits.                                  *)
(***************************************************************************)
EXTENDS Integers, FiniteSets

CONSTANTS Tasks,       \* the tasks of a batch
          Ids,         \* the ids that tasks carry
          IdOf,        \* task -> its id; two tasks may have the same one
          NoId,        \* of a task without an id: each attempt gets a new uuid
          MaxRetries,  \* max_retries
          MaxBatches   \* bound on the calls of schedule

ASSUME SchedulerAssumption ==
  /\ IsFiniteSet(Tasks) /\ NoId \notin Ids /\ IdOf \in [Tasks -> Ids \cup {NoId}]
  /\ MaxRetries \in Nat /\ MaxBatches \in Nat

VARIABLES main,       \* what schedule does: no call, or the await of its window
          coro,       \* task -> where its coroutine is
          att,        \* task -> retry_count
          status,     \* task -> status of the RolloutResult of its coroutine
          results,    \* task -> status in the list that schedule returned
          cancelled,  \* _cancelled
          counts,     \* _total_scheduled, _total_completed, _total_errors
          batches,    \* calls of schedule
          \* history
          returned,   \* completed results in the lists returned so far
          odd         \* rollouts that returned something without a "get"

vars == <<main, coro, att, status, results, cancelled, counts, batches, returned, odd>>

Failures  == {"timeout", "failed"}
Statuses  == {"completed", "cancelled"} \cup Failures
Finished  == {t \in Tasks : coro[t] = "done"}

Init ==
  /\ main = "idle"
  /\ coro = [t \in Tasks |-> "none"]
  /\ att = [t \in Tasks |-> 0]
  /\ status = [t \in Tasks |-> "none"]
  /\ results = [t \in Tasks |-> "none"]
  /\ cancelled = {}
  /\ counts = [scheduled |-> 0, completed |-> 0, errors |-> 0]
  /\ batches = 0 /\ returned = 0 /\ odd = 0

-----------------------------------------------------------------------------
(* schedule: a coroutine per task, then asyncio.wait.                       *)

Schedule ==
  /\ main = "idle" /\ Tasks # {} /\ batches < MaxBatches
  /\ main' = "waiting" /\ batches' = batches + 1
  /\ coro' = [t \in Tasks |-> "new"]
  /\ att' = [t \in Tasks |-> 0]
  /\ status' = [t \in Tasks |-> "none"]
  /\ results' = [t \in Tasks |-> "none"]
  /\ UNCHANGED <<cancelled, counts, returned, odd>>

-----------------------------------------------------------------------------
(* run_single.                                                              *)

\* The check at the top of every attempt, the first or a retry.
IsCancelled_FirstOnly(t, n) == n = 0 /\ IdOf[t] \in cancelled

IsCancelled(t, n) == IdOf[t] \in cancelled

\* Attempt n of t begins, with the counters as c, unless t was cancelled.
Begin(t, n, c) ==
  IF IsCancelled(t, n)
  THEN /\ coro' = [coro EXCEPT ![t] = "done"]
       /\ status' = [status EXCEPT ![t] = "cancelled"]
       /\ att' = [att EXCEPT ![t] = n]
       /\ counts' = c
  ELSE /\ coro' = [coro EXCEPT ![t] = "running"]
       /\ att' = [att EXCEPT ![t] = n]
       /\ counts' = [c EXCEPT !.scheduled = IF n = 0 THEN @ + 1 ELSE @]
       /\ UNCHANGED status

Starts(t) ==
  /\ coro[t] = "new"
  /\ Begin(t, 0, counts)
  /\ UNCHANGED <<main, results, cancelled, batches, returned, odd>>

\* The rollout returned a dictionary.
Succeeds(t) ==
  /\ coro[t] = "running"
  /\ coro' = [coro EXCEPT ![t] = "done"]
  /\ status' = [status EXCEPT ![t] = "completed"]
  /\ counts' = [counts EXCEPT !.completed = @ + 1]
  /\ UNCHANGED <<main, att, results, cancelled, batches, returned, odd>>


MayRetry(t) == att[t] < MaxRetries

\* What both exception handlers do: the retry begins in the same step.
Fails(t, failure, c) ==
  LET counted == [c EXCEPT !.errors = @ + 1]
  IN IF MayRetry(t)
     THEN Begin(t, att[t] + 1, counted)
     ELSE /\ coro' = [coro EXCEPT ![t] = "done"]
          /\ status' = [status EXCEPT ![t] = failure]
          /\ counts' = counted
          /\ UNCHANGED att

\* It raised, or wait_for gave it up after timeout_per_task.
Raises(t, failure) ==
  /\ coro[t] = "running"
  /\ Fails(t, failure, counts)
  /\ UNCHANGED <<main, results, cancelled, batches, returned, odd>>

\* It returned something else than a dictionary, which is counted as completed
\* and then fails on result.get.
ReturnsOdd(t) ==
  /\ coro[t] = "running"
  /\ Fails(t, "failed", [counts EXCEPT !.completed = @ + 1])
  /\ odd' = odd + 1
  /\ UNCHANGED <<main, results, cancelled, batches, returned>>

-----------------------------------------------------------------------------
(* The end of asyncio.wait, and cancel.                                     *)

Collected_Early(t) == IF att[t] = 0 /\ coro[t] = "done" THEN status[t] ELSE "cancelled"

\* The entry of t in the list: its own result, or "window_closed".
Collected(t) == IF coro[t] = "done" THEN status[t] ELSE "cancelled"

Collects_AllDone ==
  /\ main = "waiting" /\ Finished = Tasks
  /\ main' = "idle"
  /\ results' = status
  /\ returned' = returned + Cardinality({t \in Tasks : status[t] = "completed"})
  /\ UNCHANGED <<coro, att, status, cancelled, counts, batches, odd>>

\* All are done, or the window has passed.  A coroutine that is cancelled by
\* its task gets a CancelledError, which no handler catches.
Collects ==
  /\ main = "waiting"
  /\ main' = "idle"
  /\ results' = [t \in Tasks |-> Collected(t)]
  /\ coro' = [t \in Tasks |-> IF coro[t] = "done" THEN "done" ELSE "killed"]
  /\ returned' = returned + Cardinality({t \in Tasks : results'[t] = "completed"})
  /\ UNCHANGED <<att, status, cancelled, counts, batches, odd>>

Cancel(id) ==
  /\ cancelled' = cancelled \cup {id}
  /\ UNCHANGED <<main, coro, att, status, results, counts, batches, returned, odd>>

Advance(t) ==
  \/ Starts(t)
  \/ Succeeds(t)
  \/ \E failure \in Failures : Raises(t, failure)
  \/ ReturnsOdd(t)

Next ==
  \/ Schedule
  \/ \E t \in Tasks : Advance(t)
  \/ Collects
  \/ \E id \in Ids : Cancel(id)

\* The window is a timer of the event loop.
Spec == Init /\ [][Next]_vars /\ WF_vars(Collects)
-----------------------------------------------------------------------------
(* Properties.                                                              *)

TypeOK ==
  /\ main \in {"idle", "waiting"}
  /\ coro \in [Tasks -> {"none", "new", "running", "done", "killed"}]
  /\ att \in [Tasks -> 0..MaxRetries]
  /\ status \in [Tasks -> Statuses \cup {"none"}]
  /\ results \in [Tasks -> Statuses \cup {"none"}]
  /\ cancelled \subseteq Ids
  /\ counts \in [scheduled : Nat, completed : Nat, errors : Nat]
  /\ batches \in 0..MaxBatches /\ returned \in Nat /\ odd \in Nat

\* get_stats agrees with what callers were given: every completed rollout that
\* was counted was in a returned list, whether the window closed on it or on
\* others; the exceptions are the odd ones, which are counted and then fail.
CountersAgree == main = "idle" => counts.completed = returned + odd

\* Attempts, each of which ends once as completed or as an error, are limited
\* by the retry policy for every task that was counted as scheduled, those
\* that were cancelled between two attempts or by the window included.
AttemptsAccounted ==
  counts.completed + counts.errors - odd <= (MaxRetries + 1) * counts.scheduled

Starting(t) ==
  coro'[t] = "running" /\ (coro[t] # "running" \/ att'[t] # att[t])

\* No attempt of a task begins after the task was cancelled by its id: not in
\* this batch, as a retry or at first, and not in a later one.
NoStartAfterCancel == [][\A t \in Tasks : Starting(t) => IdOf[t] \notin cancelled]_vars

\* A rollout that hangs does not hold up the batch: schedule returns.
Returns == main = "waiting" ~> main = "idle"
=============================================================================
