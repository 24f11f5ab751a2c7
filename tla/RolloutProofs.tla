----------------------------- MODULE RolloutProofs -----------------------------
(***************************************************************************)
(* For every set of tasks, assignment of ids, retry policy and number of   *)
(* batches: the counters agree with what was returned, attempts stay       *)
(* within the policy, and none begins after a cancellation.                *)
(***************************************************************************)
EXTENDS RolloutScheduler, FiniteSetTheorems, TLAPS

\* Results of this batch that are there and not yet returned.
Ready == {t \in Tasks : main = "waiting" /\ coro[t] = "done" /\ status[t] = "completed"}

\* The attempts that running tasks may still end.
Left == {p \in Tasks \X (0..MaxRetries) : coro[p[1]] = "running" /\ att[p[1]] <= p[2]}

\* Between batches no coroutine can move.
IdleIsStill == main = "idle" => \A t \in Tasks : coro[t] \notin {"new", "running"}

CountersInv == /\ TypeOK
               /\ IdleIsStill
               /\ counts.completed = returned + odd + Cardinality(Ready)

AttemptsInv == /\ TypeOK
               /\ counts.completed + counts.errors - odd + Cardinality(Left)
                    <= (MaxRetries + 1) * counts.scheduled

-----------------------------------------------------------------------------
(* Types.                                                                  *)

LEMMA InitType == Init => TypeOK
BY SchedulerAssumption DEF Init, TypeOK

\* The two outcomes of an attempt's beginning keep the types.
LEMMA BeginType ==
  ASSUME TypeOK, NEW t \in Tasks, NEW n \in 0..MaxRetries,
         NEW c \in [scheduled : Nat, completed : Nat, errors : Nat], Begin(t, n, c)
  PROVE  /\ coro' \in [Tasks -> {"none", "new", "running", "done", "killed"}]
         /\ att' \in [Tasks -> 0..MaxRetries]
         /\ status' \in [Tasks -> Statuses \cup {"none"}]
         /\ counts' \in [scheduled : Nat, completed : Nat, errors : Nat]
BY DEF Begin, TypeOK, Statuses

LEMMA FailsType ==
  ASSUME TypeOK, NEW t \in Tasks, NEW failure \in Failures,
         NEW c \in [scheduled : Nat, completed : Nat, errors : Nat], Fails(t, failure, c)
  PROVE  /\ coro' \in [Tasks -> {"none", "new", "running", "done", "killed"}]
         /\ att' \in [Tasks -> 0..MaxRetries]
         /\ status' \in [Tasks -> Statuses \cup {"none"}]
         /\ counts' \in [scheduled : Nat, completed : Nat, errors : Nat]
<1> DEFINE d == [c EXCEPT !.errors = @ + 1]
<1>1. d \in [scheduled : Nat, completed : Nat, errors : Nat]
  OBVIOUS
<1>2. ASSUME MayRetry(t), Begin(t, att[t] + 1, d)
      PROVE  /\ coro' \in [Tasks -> {"none", "new", "running", "done", "killed"}]
             /\ att' \in [Tasks -> 0..MaxRetries]
             /\ status' \in [Tasks -> Statuses \cup {"none"}]
             /\ counts' \in [scheduled : Nat, completed : Nat, errors : Nat]
  <2>1. att[t] + 1 \in 0..MaxRetries
    BY <1>2, SchedulerAssumption DEF TypeOK, MayRetry
  <2> HIDE DEF d
  <2> QED BY <1>1, <1>2, <2>1, BeginType
<1>3. CASE ~MayRetry(t)
  BY <1>1, <1>3 DEF Fails, TypeOK, Statuses
<1> QED BY <1>2, <1>3 DEF Fails

LEMMA TypeStep == TypeOK /\ [Next]_vars => TypeOK'
<1> SUFFICES ASSUME TypeOK, [Next]_vars PROVE TypeOK'
  OBVIOUS
<1>1. CASE Schedule
  BY <1>1, SchedulerAssumption DEF Schedule, TypeOK
<1>2. ASSUME NEW t \in Tasks, Starts(t) PROVE TypeOK'
  <2>1. Begin(t, 0, counts) /\ 0 \in 0..MaxRetries
    BY <1>2, SchedulerAssumption DEF Starts
  <2> QED BY <1>2, <2>1, BeginType DEF Starts, TypeOK
<1>3. ASSUME NEW t \in Tasks, Succeeds(t) PROVE TypeOK'
  BY <1>3 DEF Succeeds, TypeOK, Statuses
<1>4. ASSUME NEW t \in Tasks, NEW failure \in Failures, Raises(t, failure) PROVE TypeOK'
  BY <1>4, FailsType DEF Raises, TypeOK
<1>5. ASSUME NEW t \in Tasks, ReturnsOdd(t) PROVE TypeOK'
  <2> DEFINE c == [counts EXCEPT !.completed = @ + 1]
  <2>1. c \in [scheduled : Nat, completed : Nat, errors : Nat] /\ "failed" \in Failures
    BY DEF TypeOK, Failures
  <2>2. Fails(t, "failed", c)
    BY <1>5 DEF ReturnsOdd
  <2> HIDE DEF c
  <2> QED BY <1>5, <2>1, <2>2, FailsType DEF ReturnsOdd, TypeOK
<1>6. CASE Collects
  <2>1. IsFiniteSet({t \in Tasks : results'[t] = "completed"})
    BY SchedulerAssumption, FS_Subset
  <2>2. Cardinality({t \in Tasks : results'[t] = "completed"}) \in Nat
    BY <2>1, FS_CardinalityType
  <2> QED BY <1>6, <2>2 DEF Collects, Collected, TypeOK, Statuses
<1>7. ASSUME NEW id \in Ids, Cancel(id) PROVE TypeOK'
  BY <1>7 DEF Cancel, TypeOK
<1>8. CASE UNCHANGED vars
  BY <1>8 DEF vars, TypeOK
<1> QED BY <1>1, <1>2, <1>3, <1>4, <1>5, <1>6, <1>7, <1>8 DEF Next, Advance

\* Coroutines, statuses and counters keep their types, and no task is retried
\* beyond the policy, for every batch and policy.
THEOREM TypeCorrect == Spec => []TypeOK
BY InitType, TypeStep, PTL DEF Spec

-----------------------------------------------------------------------------
(* Cancellation.                                                           *)

\* A coroutine becomes running, or runs a later attempt, in Begin only.
LEMMA BeginChecks ==
  ASSUME TypeOK, NEW t \in Tasks, NEW n \in 0..MaxRetries, NEW c, Begin(t, n, c)
  PROVE  \A u \in Tasks : Starting(u) => IdOf[u] \notin cancelled
BY DEF Begin, IsCancelled, Starting, TypeOK

LEMMA FailsChecks ==
  ASSUME TypeOK, NEW t \in Tasks, NEW failure, NEW c, Fails(t, failure, c)
  PROVE  \A u \in Tasks : Starting(u) => IdOf[u] \notin cancelled
<1>1. CASE MayRetry(t)
  <2>1. att[t] + 1 \in 0..MaxRetries
    BY <1>1, SchedulerAssumption DEF TypeOK, MayRetry
  <2> QED BY <1>1, <2>1, BeginChecks DEF Fails
<1>2. CASE ~MayRetry(t)
  BY <1>2 DEF Fails, Starting, TypeOK
<1> QED BY <1>1, <1>2

\* The check at the top of run_single is made for every attempt, in the step
\* that begins it: no task starts or is retried once its id was cancelled.
THEOREM CancelledStay == Spec => NoStartAfterCancel
<1> DEFINE Ok == \A t \in Tasks : Starting(t) => IdOf[t] \notin cancelled
<1>1. TypeOK /\ [Next]_vars => [Ok]_vars
  <2> SUFFICES ASSUME TypeOK, Next PROVE Ok
    OBVIOUS
  <2>1. ASSUME NEW t \in Tasks, Starts(t) PROVE Ok
    BY <2>1, BeginChecks, SchedulerAssumption DEF Starts
  <2>2. ASSUME NEW t \in Tasks, NEW failure \in Failures, Raises(t, failure) PROVE Ok
    BY <2>2, FailsChecks DEF Raises
  <2>3. ASSUME NEW t \in Tasks, ReturnsOdd(t) PROVE Ok
    BY <2>3, FailsChecks DEF ReturnsOdd
  <2>4. ASSUME NEW t \in Tasks, Succeeds(t) PROVE Ok
    BY <2>4 DEF Succeeds, Starting, TypeOK
  <2>5. CASE Schedule \/ Collects \/ \E id \in Ids : Cancel(id)
    BY <2>5 DEF Schedule, Collects, Cancel, Starting, TypeOK
  <2> QED BY <2>1, <2>2, <2>3, <2>4, <2>5 DEF Next, Advance
<1> QED BY <1>1, TypeCorrect, PTL DEF Spec, NoStartAfterCancel

-----------------------------------------------------------------------------
(* The counters.                                                           *)

\* What the beginning of an attempt, or a failure, does to the counter of
\* completed rollouts and to the results that are there: nothing.
LEMMA BeginReady ==
  ASSUME CountersInv, main = "waiting", UNCHANGED main, NEW t \in Tasks, coro[t] \in {"new", "running"},
         NEW n \in 0..MaxRetries,
         NEW c \in [scheduled : Nat, completed : Nat, errors : Nat], Begin(t, n, c)
  PROVE  Ready' = Ready /\ counts'.completed = c.completed
BY DEF Begin, Ready, CountersInv, TypeOK, Statuses

LEMMA FailsReady ==
  ASSUME CountersInv, main = "waiting", UNCHANGED main, NEW t \in Tasks, coro[t] = "running",
         NEW failure \in Failures,
         NEW c \in [scheduled : Nat, completed : Nat, errors : Nat], Fails(t, failure, c)
  PROVE  Ready' = Ready /\ counts'.completed = c.completed
<1> DEFINE d == [c EXCEPT !.errors = @ + 1]
<1>1. d \in [scheduled : Nat, completed : Nat, errors : Nat] /\ d.completed = c.completed
  OBVIOUS
<1>2. ASSUME MayRetry(t), Begin(t, att[t] + 1, d)
      PROVE  Ready' = Ready /\ counts'.completed = c.completed
  <2>1. att[t] + 1 \in 0..MaxRetries
    BY <1>2, SchedulerAssumption DEF CountersInv, TypeOK, MayRetry
  <2> HIDE DEF d
  <2> QED BY <1>1, <1>2, <2>1, BeginReady
<1>3. ASSUME ~MayRetry(t) PROVE Ready' = Ready /\ counts'.completed = c.completed
  <2>1. /\ coro' = [coro EXCEPT ![t] = "done"]
        /\ status' = [status EXCEPT ![t] = failure]
        /\ counts' = d
    BY <1>3 DEF Fails
  <2>2. Ready' = Ready
    BY <2>1 DEF Ready, CountersInv, TypeOK, Failures
  <2> QED BY <1>1, <2>1, <2>2
<1> QED BY <1>2, <1>3 DEF Fails

LEMMA ReadyFinite == IsFiniteSet(Ready) /\ Cardinality(Ready) \in Nat
BY SchedulerAssumption, FS_Subset, FS_CardinalityType DEF Ready

LEMMA StillStep ==
  ASSUME TypeOK, IdleIsStill, [Next]_vars PROVE IdleIsStill'
<1>1. ASSUME NEW t \in Tasks, Advance(t) PROVE IdleIsStill'
  <2>1. coro[t] \in {"new", "running"} /\ UNCHANGED main
    BY <1>1 DEF Advance, Starts, Succeeds, Raises, ReturnsOdd
  <2> QED BY <2>1 DEF IdleIsStill, TypeOK
<1>2. CASE Schedule \/ Collects \/ (\E id \in Ids : Cancel(id)) \/ UNCHANGED vars
  BY <1>2 DEF Schedule, Collects, Cancel, vars, IdleIsStill, TypeOK
<1> QED BY <1>1, <1>2 DEF Next

LEMMA CountersStep == CountersInv /\ [Next]_vars => CountersInv'
<1> SUFFICES ASSUME CountersInv, [Next]_vars
             PROVE  counts'.completed = returned' + odd' + Cardinality(Ready')
  BY TypeStep, StillStep DEF CountersInv
<1> DEFINE Goal == counts'.completed = returned' + odd' + Cardinality(Ready')
<1>t. /\ counts.completed = returned + odd + Cardinality(Ready)
      /\ counts \in [scheduled : Nat, completed : Nat, errors : Nat]
      /\ returned \in Nat /\ odd \in Nat /\ Cardinality(Ready) \in Nat
  BY ReadyFinite DEF CountersInv, TypeOK
<1>m. ASSUME NEW t \in Tasks, coro[t] \in {"new", "running"} PROVE main = "waiting"
  BY <1>m DEF CountersInv, IdleIsStill, TypeOK
<1>1. ASSUME Schedule PROVE Goal
  <2>1. Ready = {} /\ Ready' = {}
    BY <1>1 DEF Schedule, Ready
  <2> QED BY <1>1, <1>t, <2>1 DEF Schedule
<1>2. ASSUME NEW t \in Tasks, Starts(t) PROVE Goal
  <2>1. Ready' = Ready /\ counts'.completed = counts.completed
    BY <1>2, <1>m, <1>t, BeginReady, SchedulerAssumption DEF Starts
  <2> QED BY <1>2, <1>t, <2>1 DEF Starts
<1>3. ASSUME NEW t \in Tasks, Succeeds(t) PROVE Goal
  <2>1. Ready' = Ready \cup {t} /\ t \notin Ready
    BY <1>3, <1>m DEF Succeeds, Ready, CountersInv, TypeOK
  <2>2. Cardinality(Ready') = Cardinality(Ready) + 1
    BY <2>1, ReadyFinite, FS_AddElement
  <2>3. counts'.completed = counts.completed + 1
    BY <1>3, <1>t DEF Succeeds
  <2> QED BY <1>3, <1>t, <2>2, <2>3 DEF Succeeds
<1>4. ASSUME NEW t \in Tasks, NEW failure \in Failures, Raises(t, failure) PROVE Goal
  <2>1. Ready' = Ready /\ counts'.completed = counts.completed
    BY <1>4, <1>m, <1>t, FailsReady DEF Raises
  <2> QED BY <1>4, <1>t, <2>1 DEF Raises
<1>5. ASSUME NEW t \in Tasks, ReturnsOdd(t) PROVE Goal
  <2> DEFINE c == [counts EXCEPT !.completed = @ + 1]
  <2>1. /\ c \in [scheduled : Nat, completed : Nat, errors : Nat]
        /\ c.completed = counts.completed + 1 /\ "failed" \in Failures
    BY <1>t DEF Failures
  <2>2. Fails(t, "failed", c) /\ coro[t] = "running" /\ UNCHANGED main
    BY <1>5 DEF ReturnsOdd
  <2> HIDE DEF c
  <2>3. Ready' = Ready /\ counts'.completed = c.completed
    BY <1>m, <2>1, <2>2, FailsReady
  <2> QED BY <1>5, <1>t, <2>1, <2>3 DEF ReturnsOdd
<1>6. ASSUME Collects PROVE Goal
  <2>1. {t \in Tasks : results'[t] = "completed"} = Ready
    BY <1>6 DEF Collects, Collected, Ready
  <2>2. Ready' = {}
    BY <1>6 DEF Collects, Ready
  <2>3. Cardinality(Ready') = 0
    BY <2>2, FS_EmptySet
  <2>4. /\ returned' = returned + Cardinality({t \in Tasks : results'[t] = "completed"})
        /\ UNCHANGED <<counts, odd>>
    BY <1>6 DEF Collects
  <2>5. returned' = returned + Cardinality(Ready)
    BY <2>1, <2>4, Zenon
  <2> QED BY <1>t, <2>3, <2>4, <2>5
<1>7. ASSUME NEW id \in Ids, Cancel(id) PROVE Goal
  <2>1. Ready' = Ready
    BY <1>7 DEF Cancel, Ready
  <2> QED BY <1>7, <1>t, <2>1 DEF Cancel
<1>8. ASSUME UNCHANGED vars PROVE Goal
  <2>1. Ready' = Ready
    BY <1>8 DEF vars, Ready
  <2> QED BY <1>8, <1>t, <2>1 DEF vars
<1> HIDE DEF Goal
<1>9. Goal
  BY <1>1, <1>2, <1>3, <1>4, <1>5, <1>6, <1>7, <1>8 DEF Next, Advance
<1> QED BY <1>9 DEF Goal

\* Whatever the number of tasks and however the window cuts them off, the
\* completed rollouts that were counted are those in the lists that were
\* returned and the odd ones.
THEOREM CountersHold == Spec => []CountersAgree
<1>1. Init => CountersInv
  <2> SUFFICES ASSUME Init PROVE CountersInv
    OBVIOUS
  <2>1. Ready = {} /\ IdleIsStill
    BY DEF Init, Ready, IdleIsStill
  <2> QED BY <2>1, InitType, FS_EmptySet DEF Init, CountersInv
<1>2. CountersInv => CountersAgree
  <2> SUFFICES ASSUME CountersInv, main = "idle" PROVE counts.completed = returned + odd
    BY DEF CountersAgree
  <2>1. Ready = {}
    BY DEF Ready
  <2> QED BY <2>1, FS_EmptySet DEF CountersInv, TypeOK
<1> QED BY <1>1, <1>2, CountersStep, PTL DEF Spec

-----------------------------------------------------------------------------
(* Attempts.                                                               *)

LEMMA LeftFinite == IsFiniteSet(Left) /\ Cardinality(Left) \in Nat
<1>1. IsFiniteSet(Tasks) /\ IsFiniteSet(0..MaxRetries)
  BY SchedulerAssumption, FS_Interval
<1>2. IsFiniteSet(Tasks \X (0..MaxRetries))
  BY <1>1, FS_Product
<1> QED BY <1>2, FS_Subset, FS_CardinalityType DEF Left

\* The first attempt of a task brings MaxRetries + 1 that may end.
LEMMA LeftGrows ==
  ASSUME NEW t \in Tasks, Left' \subseteq Left \cup ({t} \X (0..MaxRetries))
  PROVE  Cardinality(Left') <= Cardinality(Left) + MaxRetries + 1 /\ Cardinality(Left') \in Nat
<1> DEFINE Row == {t} \X (0..MaxRetries)
<1>1. IsFiniteSet({t}) /\ Cardinality({t}) = 1
  BY FS_EmptySet, FS_AddElement
<1>2. IsFiniteSet(0..MaxRetries) /\ Cardinality(0..MaxRetries) = MaxRetries + 1
  BY SchedulerAssumption, FS_Interval
<1>3. IsFiniteSet(Row) /\ Cardinality(Row) = 1 * (MaxRetries + 1)
  BY <1>1, <1>2, FS_Product, Zenon
<1>4. Cardinality(Row) = MaxRetries + 1
  BY <1>3, SchedulerAssumption
<1> HIDE DEF Row
<1>5. /\ IsFiniteSet(Left \cup Row)
      /\ Cardinality(Left \cup Row) = Cardinality(Left) + Cardinality(Row) - Cardinality(Left \cap Row)
  BY <1>3, LeftFinite, FS_Union
<1>6. Cardinality(Left \cap Row) \in Nat
  BY LeftFinite, FS_Subset, FS_CardinalityType
<1>7. Left' \subseteq Left \cup Row
  BY DEF Row
<1>8. /\ Cardinality(Left') <= Cardinality(Left \cup Row)
      /\ Cardinality(Left') \in Nat /\ Cardinality(Left \cup Row) \in Nat
  BY <1>5, <1>7, FS_Subset, FS_CardinalityType
<1> QED BY <1>4, <1>5, <1>6, <1>8, LeftFinite, SchedulerAssumption

\* The end of an attempt uses it up.
LEMMA LeftShrinks ==
  ASSUME TypeOK, NEW t \in Tasks, coro[t] = "running", Left' \subseteq Left \ {<<t, att[t]>>}
  PROVE  Cardinality(Left') <= Cardinality(Left) - 1 /\ Cardinality(Left') \in Nat
<1>1. <<t, att[t]>> \in Left
  BY DEF TypeOK, Left
<1>2. /\ IsFiniteSet(Left \ {<<t, att[t]>>})
      /\ Cardinality(Left \ {<<t, att[t]>>}) = Cardinality(Left) - 1
  BY <1>1, LeftFinite, FS_RemoveElement
<1>3. Cardinality(Left') <= Cardinality(Left \ {<<t, att[t]>>}) /\ Cardinality(Left') \in Nat
  BY <1>2, FS_Subset, FS_CardinalityType
<1> QED BY <1>2, <1>3, LeftFinite

LEMMA LeftStays ==
  ASSUME Left' \subseteq Left
  PROVE  Cardinality(Left') <= Cardinality(Left) /\ Cardinality(Left') \in Nat
BY LeftFinite, FS_Subset, FS_CardinalityType

\* A failure: one error more, one attempt less, no task scheduled.
LEMMA FailsLeft ==
  ASSUME TypeOK, NEW t \in Tasks, coro[t] = "running", NEW failure \in Failures,
         NEW c \in [scheduled : Nat, completed : Nat, errors : Nat], Fails(t, failure, c)
  PROVE  /\ Left' \subseteq Left \ {<<t, att[t]>>}
         /\ counts' = [c EXCEPT !.errors = @ + 1]
<1> DEFINE d == [c EXCEPT !.errors = @ + 1]
<1>1. d \in [scheduled : Nat, completed : Nat, errors : Nat]
  OBVIOUS
<1>2. ASSUME MayRetry(t), Begin(t, att[t] + 1, d)
      PROVE  Left' \subseteq Left \ {<<t, att[t]>>} /\ counts' = d
  <2> HIDE DEF d
  <2>1. counts' = d
    BY <1>1, <1>2 DEF Begin, TypeOK
  <2>2. att' = [att EXCEPT ![t] = att[t] + 1]
        /\ coro' \in {[coro EXCEPT ![t] = "done"], [coro EXCEPT ![t] = "running"]}
    BY <1>2 DEF Begin
  <2>3. ASSUME NEW u \in Tasks, NEW n \in 0..MaxRetries, coro'[u] = "running", att'[u] <= n
        PROVE  coro[u] = "running" /\ att[u] <= n /\ (u = t => att[t] # n)
    BY <2>2, <2>3, SchedulerAssumption DEF TypeOK
  <2> QED BY <2>1, <2>3 DEF Left
<1>3. ASSUME ~MayRetry(t), coro' = [coro EXCEPT ![t] = "done"], counts' = d, UNCHANGED att
      PROVE  Left' \subseteq Left \ {<<t, att[t]>>} /\ counts' = d
  BY <1>3 DEF Left, TypeOK
<1> QED BY <1>2, <1>3 DEF Fails

LEMMA AttemptsStep == AttemptsInv /\ [Next]_vars => AttemptsInv'
<1> DEFINE Bound(k) == (MaxRetries + 1) * k
           Goal == counts'.completed + counts'.errors - odd' + Cardinality(Left')
                     <= Bound(counts'.scheduled)
<1> SUFFICES ASSUME AttemptsInv, [Next]_vars PROVE Goal
  BY TypeStep DEF AttemptsInv
<1>t. /\ TypeOK
      /\ counts.completed + counts.errors - odd + Cardinality(Left) <= Bound(counts.scheduled)
      /\ counts \in [scheduled : Nat, completed : Nat, errors : Nat]
      /\ odd \in Nat /\ Cardinality(Left) \in Nat
  BY LeftFinite DEF AttemptsInv, TypeOK
<1>b. \A k \in Nat : Bound(k) \in Nat /\ Bound(k + 1) = Bound(k) + MaxRetries + 1
  BY SchedulerAssumption
<1> HIDE DEF Bound
<1>1. ASSUME NEW t \in Tasks, Starts(t) PROVE Goal
  <2>1. Begin(t, 0, counts) /\ UNCHANGED odd
    BY <1>1 DEF Starts
  <2>2. CASE IsCancelled(t, 0)
    <3>1. Left' \subseteq Left /\ UNCHANGED counts
      BY <1>1, <1>t, <2>1, <2>2 DEF Begin, Left, Starts, TypeOK
    <3> QED BY <1>t, <1>b, <2>1, <3>1, LeftStays
  <2>3. CASE ~IsCancelled(t, 0)
    <3>1. /\ Left' \subseteq Left \cup ({t} \X (0..MaxRetries))
          /\ counts' = [counts EXCEPT !.scheduled = @ + 1]
      BY <1>1, <1>t, <2>1, <2>3 DEF Begin, Left, TypeOK
    <3>2. Cardinality(Left') <= Cardinality(Left) + MaxRetries + 1 /\ Cardinality(Left') \in Nat
      BY <3>1, LeftGrows
    <3>3. /\ counts'.scheduled = counts.scheduled + 1
          /\ counts'.completed = counts.completed /\ counts'.errors = counts.errors
      BY <1>t, <3>1
    <3> QED BY <1>t, <1>b, <2>1, <3>2, <3>3, SchedulerAssumption
  <2> QED BY <2>2, <2>3
<1>2. ASSUME NEW t \in Tasks, Succeeds(t) PROVE Goal
  <2>1. coro[t] = "running" /\ Left' \subseteq Left \ {<<t, att[t]>>}
    BY <1>2, <1>t DEF Succeeds, Left, TypeOK
  <2>2. counts' = [counts EXCEPT !.completed = @ + 1] /\ UNCHANGED odd
    BY <1>2 DEF Succeeds
  <2> QED BY <1>t, <1>b, <2>1, <2>2, LeftShrinks
<1>3. ASSUME NEW t \in Tasks, NEW failure \in Failures, Raises(t, failure) PROVE Goal
  <2>1. coro[t] = "running" /\ Fails(t, failure, counts) /\ UNCHANGED odd
    BY <1>3 DEF Raises
  <2>2. Left' \subseteq Left \ {<<t, att[t]>>} /\ counts' = [counts EXCEPT !.errors = @ + 1]
    BY <1>t, <2>1, FailsLeft
  <2> QED BY <1>t, <1>b, <2>1, <2>2, LeftShrinks
<1>4. ASSUME NEW t \in Tasks, ReturnsOdd(t) PROVE Goal
  <2> DEFINE c == [counts EXCEPT !.completed = @ + 1]
  <2>1. /\ c \in [scheduled : Nat, completed : Nat, errors : Nat]
        /\ c.completed = counts.completed + 1 /\ c.errors = counts.errors
        /\ c.scheduled = counts.scheduled /\ "failed" \in Failures
    BY <1>t DEF Failures
  <2>2. coro[t] = "running" /\ Fails(t, "failed", c) /\ odd' = odd + 1
    BY <1>4 DEF ReturnsOdd
  <2> HIDE DEF c
  <2>3. Left' \subseteq Left \ {<<t, att[t]>>} /\ counts' = [c EXCEPT !.errors = @ + 1]
    BY <1>t, <2>1, <2>2, FailsLeft
  <2> QED BY <1>t, <1>b, <2>1, <2>2, <2>3, LeftShrinks
<1>5. ASSUME Schedule \/ Collects \/ (\E id \in Ids : Cancel(id)) \/ UNCHANGED vars PROVE Goal
  <2>1. UNCHANGED <<counts, odd>>
    BY <1>5 DEF Schedule, Collects, Cancel, vars
  <2>2. Left' \subseteq Left
    BY <1>5, <1>t DEF Schedule, Collects, Cancel, vars, Left, TypeOK
  <2> QED BY <1>t, <1>b, <2>1, <2>2, LeftStays
<1> HIDE DEF Goal
<1>9. Goal
  BY <1>1, <1>2, <1>3, <1>4, <1>5 DEF Next, Advance
<1> QED BY <1>9

\* For every retry policy: the attempts that ended, as a completed rollout or
\* as an error, are at most MaxRetries + 1 for each task that was scheduled.
THEOREM AttemptsHold == Spec => []AttemptsAccounted
<1>1. Init => AttemptsInv
  <2> SUFFICES ASSUME Init PROVE AttemptsInv
    OBVIOUS
  <2>1. Left = {} /\ counts = [scheduled |-> 0, completed |-> 0, errors |-> 0] /\ odd = 0
    BY DEF Init, Left
  <2> QED BY <2>1, InitType, FS_EmptySet, SchedulerAssumption DEF AttemptsInv
<1>2. AttemptsInv => AttemptsAccounted
  <2> DEFINE bound == (MaxRetries + 1) * counts.scheduled
  <2> SUFFICES ASSUME AttemptsInv PROVE counts.completed + counts.errors - odd <= bound
    BY DEF AttemptsAccounted
  <2>1. /\ counts.completed + counts.errors - odd + Cardinality(Left) <= bound
        /\ counts \in [scheduled : Nat, completed : Nat, errors : Nat] /\ odd \in Nat
    BY DEF AttemptsInv, TypeOK
  <2>2. bound \in Nat
    BY <2>1, SchedulerAssumption
  <2> HIDE DEF bound
  <2> QED BY <2>1, <2>2, LeftFinite
<1> QED BY <1>1, <1>2, AttemptsStep, PTL DEF Spec
===============================================================================
