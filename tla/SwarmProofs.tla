---------------------------- MODULE SwarmProofs ----------------------------
(***************************************************************************)
(* For every set of plans, every number of workers and every order in      *)
(* which they end: the waves implement DAGSchedule, a rejection is         *)
(* explained, and the result is what the caller may rely on.               *)
(***************************************************************************)
EXTENDS SwarmOrchestrator, FiniteSetTheorems, WellFoundedInduction, TLAPS

Places == {"decompose", "single", "waves", "gather", "conclude", "returned"}

Errors == {"none", "decompose", "execution", "verification", "exception", "rejected"}
Results == [success : BOOLEAN, text : Nat, error : Errors]

SwarmType ==
  /\ plan \in Plans
  /\ executor \in {"consuming", "rejecting"} /\ verifies \in BOOLEAN
  /\ status \in [Tasks -> {"pending", "running", "done", "rejected"}]
  /\ cause \in [Tasks -> {"none", "raised", "unresolvable"}]
  /\ artifact \in [Tasks -> {"absent", "done", "consumed", "rejected"}]
  /\ wave \subseteq Tasks /\ main \in Places
  /\ result \in Results

\* A status, its reason and its artifact tell the same story.
Agree ==
  \A s \in Tasks :
    /\ status[s] = "rejected" <=> cause[s] # "none"
    /\ artifact[s] # "absent" <=> status[s] = "done"
    /\ status[s] # "pending" => s \in plan.tasks
    /\ artifact[s] = "rejected" => executor = "rejecting"

\* Only a wave runs, and only what has all of its inputs is in one.
Waves ==
  /\ main # "gather" => wave = {} /\ \A s \in Tasks : status[s] # "running"
  /\ \A s \in Tasks : status[s] = "running" => s \in wave
  /\ \A s \in wave : s \in plan.tasks /\ \A d \in Deps(s) : status[d] = "done"

\* What is known at each place of execute().
Stages ==
  /\ main \in {"waves", "gather", "conclude"} => Acyclic /\ \A s \in plan.tasks : Deps(s) \subseteq plan.tasks
  /\ main = "single" => Cardinality(plan.tasks) = 1
  /\ main \notin {"conclude", "returned"} => \A s \in Tasks : cause[s] # "unresolvable"
  /\ main = "conclude" => \A s \in plan.tasks : status[s] \in {"done", "rejected"}

SwarmInv == SwarmType /\ Agree /\ Waves /\ Stages /\ RejectionExplained /\ ResultSound

-----------------------------------------------------------------------------
(* Numbers and plans.                                                       *)

LEMMA LeastNat ==
  ASSUME NEW T, T \subseteq Nat, T # {}
  PROVE \E x \in T : \A y \in T : x <= y
<1>1. PICK x \in T : \A y \in T : <<y, x>> \notin OpToRel(<, Nat)
  BY NatLessThanWellFounded, WFMin
<1>2. ASSUME NEW y \in T PROVE x <= y
  <2>1. x \in Nat /\ y \in Nat
    OBVIOUS
  <2>2. <<y, x>> \notin OpToRel(<, Nat)
    BY <1>1
  <2>3. ~(y < x)
    BY <2>1, <2>2 DEF OpToRel
  <2> QED BY <2>1, <2>3
<1> QED BY <1>2

LEMMA PlanTypes ==
  ASSUME plan \in Plans
  PROVE plan.tasks \subseteq Tasks /\ \A s : Deps(s) \subseteq Tasks
BY SwarmAssumption DEF Deps

LEMMA TasksFinite == IsFiniteSet(Tasks)
<1>1. 1 \in Int /\ MaxTasks \in Int
  BY SwarmAssumption
<1> QED BY <1>1, FS_Interval DEF Tasks

\* What a dependency needs, its dependent needs.
LEMMA DepIsUpstream ==
  ASSUME NEW s \in Tasks, NEW d \in Deps(s)
  PROVE d \in Upstream(s) /\ Upstream(d) \subseteq Upstream(s)
<1>1. d \in Tasks
  BY DEF Deps
<1>2. d \in Upstream(s)
  BY <1>1 DEF Upstream
<1>3. ASSUME NEW u \in Upstream(d) PROVE u \in Upstream(s)
  <2>1. u \in Tasks
    BY DEF Upstream
  <2>2. ASSUME NEW S \in SUBSET Tasks, Deps(s) \subseteq S, \A x \in S : Deps(x) \subseteq S PROVE u \in S
    <3>1. Deps(d) \subseteq S
      BY <2>2
    <3> QED BY <2>2, <3>1 DEF Upstream
  <2> QED BY <2>1, <2>2 DEF Upstream
<1> QED BY <1>2, <1>3

\* In a plan without cycles, subtasks cannot all wait for one another: the one with the least upstream
\* has no dependency among them.
LEMMA SomeoneWaitsForNone ==
  ASSUME plan \in Plans, Acyclic, NEW Bad, Bad \subseteq plan.tasks, Bad # {}
  PROVE \E s \in Bad : Deps(s) \cap Bad = {}
<1> DEFINE T == {Cardinality(Upstream(s)) : s \in Bad}
<1>1. Bad \subseteq Tasks
  BY PlanTypes
<1>2. \A s \in Tasks : IsFiniteSet(Upstream(s)) /\ Cardinality(Upstream(s)) \in Nat
  <2>1. ASSUME NEW s \in Tasks PROVE IsFiniteSet(Upstream(s))
    <3>1. Upstream(s) \subseteq Tasks
      BY DEF Upstream
    <3> QED BY <3>1, TasksFinite, FS_Subset
  <2> QED BY <2>1, FS_CardinalityType
<1>3. T \subseteq Nat /\ T # {}
  BY <1>1, <1>2
<1>4. PICK n \in T : \A m \in T : n <= m
  <2> HIDE DEF T
  <2> QED BY <1>3, LeastNat
<1>5. PICK s \in Bad : n = Cardinality(Upstream(s))
  OBVIOUS
<1>6. SUFFICES ASSUME NEW d \in Bad, d \in Deps(s) PROVE FALSE
  OBVIOUS
<1>7. d \in Upstream(s) /\ Upstream(d) \subseteq Upstream(s)
  BY <1>1, <1>6, DepIsUpstream
<1>8. d \notin Upstream(d)
  BY <1>1 DEF Acyclic
<1>9. Upstream(d) # Upstream(s)
  BY <1>7, <1>8
<1>10. Cardinality(Upstream(d)) < Cardinality(Upstream(s))
  <2>1. IsFiniteSet(Upstream(s)) /\ Cardinality(Upstream(s)) \in Nat /\ Cardinality(Upstream(d)) \in Nat
    BY <1>1, <1>2
  <2>2. Cardinality(Upstream(d)) <= Cardinality(Upstream(s))
    BY <1>7, <2>1, FS_Subset
  <2>3. Cardinality(Upstream(d)) # Cardinality(Upstream(s))
    BY <1>7, <1>9, <2>1, FS_Subset
  <2> QED BY <2>1, <2>2, <2>3
<1>11. n <= Cardinality(Upstream(d))
  BY <1>4
<1>12. Cardinality(Upstream(s)) \in Nat /\ Cardinality(Upstream(d)) \in Nat
  BY <1>1, <1>2
<1> QED BY <1>5, <1>10, <1>11, <1>12

\* The last of a set of subtasks is one of them.
LEMMA LastOfTasks ==
  ASSUME NEW S, S \subseteq Tasks, S # {}
  PROVE Max(S) \in S /\ \A s \in S : Max(S) >= s
<1> DEFINE T == {n \in Nat : \E s \in S : n = MaxTasks - s}
<1>1. \A s \in S : s \in Nat /\ MaxTasks - s \in Nat
  BY SwarmAssumption DEF Tasks
<1>2. T # {} /\ T \subseteq Nat
  <2>1. PICK s \in S : TRUE
    OBVIOUS
  <2>2. MaxTasks - s \in T
    BY <1>1
  <2> QED BY <2>2
<1> HIDE DEF T
<1>3. PICK n \in T : \A m \in T : n <= m
  BY <1>2, LeastNat
<1> USE DEF T
<1>4. PICK x \in S : n = MaxTasks - x
  OBVIOUS
<1>5. ASSUME NEW s \in S PROVE x >= s
  <2>1. MaxTasks - s \in T
    BY <1>1
  <2>2. n <= MaxTasks - s
    BY <1>3, <2>1
  <2> QED BY <1>1, <1>4, <2>2, SwarmAssumption
<1>6. \E z \in S : \A y \in S : z >= y
  BY <1>5
<1> QED BY <1>6, Zenon DEF Max

-----------------------------------------------------------------------------
(* The invariant: one lemma per part of execute().                          *)

\* The plan never changes, and with it what is said of it.
LEMMA PlanStays ==
  ASSUME plan' = plan
  PROVE /\ \A s : (Deps(s))' = Deps(s) /\ (Upstream(s))' = Upstream(s)
        /\ Acyclic' = Acyclic /\ Needed' = Needed
<1>1. ASSUME NEW s PROVE (Deps(s))' = Deps(s)
  BY DEF Deps
<1>2. ASSUME NEW s PROVE (Upstream(s))' = Upstream(s)
  BY DEF Upstream, Deps
<1>3. Acyclic' = Acyclic
  BY <1>2 DEF Acyclic
<1>4. Needed' = Needed
  BY <1>1 DEF Needed
<1> QED BY <1>1, <1>2, <1>3, <1>4

LEMMA SwarmStart == Init => SwarmInv
BY SwarmAssumption
   DEF Init, SwarmInv, SwarmType, Places, Errors, Results, Agree, Waves, Stages, RejectionExplained, ResultSound, NoText

LEMMA ResultTyped ==
  ASSUME NEW ok \in BOOLEAN, NEW s \in Nat, NEW e \in Errors
  PROVE [success |-> ok, text |-> s, error |-> e] \in Results
BY DEF Results

\* The steps of execute() up to the first wave, and the result of one subtask.
LEMMA BeforeWaves ==
  ASSUME SwarmInv, Decompose \/ RunSingle
  PROVE SwarmInv'
<1>1. main \in {"decompose", "single"} /\ UNCHANGED <<plan, executor, verifies, status, cause, artifact, wave>>
  BY DEF Decompose, RunSingle
<1>2. \A s : (Deps(s))' = Deps(s) /\ (Upstream(s))' = Upstream(s)
  BY <1>1, PlanStays
<1>3. Acyclic' = Acyclic /\ Needed' = Needed
  BY <1>1, PlanStays
<1>4. Agree'
  BY <1>1 DEF SwarmInv, Agree
<1>5. \A s \in Tasks : cause[s] # "unresolvable"
  BY <1>1 DEF SwarmInv, Stages
<1>6. RejectionExplained'
  BY <1>1, <1>5 DEF RejectionExplained
<1>7. CASE Decompose
  <2>1. CASE Return(FALSE, NoText, "decompose")
    <3>1. main' = "returned" /\ result' = [success |-> FALSE, text |-> 0, error |-> "decompose"]
      BY <2>1 DEF Return, NoText
    <3>2. SwarmType'
      BY <1>1, <3>1 DEF SwarmInv, SwarmType, Places, Errors, Results
    <3>3. Waves' /\ Stages'
      BY <1>1, <1>2, <3>1 DEF SwarmInv, Waves, Stages
    <3>4. ResultSound'
      BY <3>1 DEF ResultSound
    <3> QED BY <1>4, <1>6, <3>2, <3>3, <3>4 DEF SwarmInv
  <2>2. CASE Validate /\ main' = (IF Cardinality(plan.tasks) = 1 THEN "single" ELSE "waves") /\ UNCHANGED result
    <3>1. SwarmType'
      BY <1>1, <2>2 DEF SwarmInv, SwarmType, Places
    <3>2. Waves'
      BY <1>1, <1>2, <2>2 DEF SwarmInv, Waves
    <3>3. Acyclic /\ \A s \in plan.tasks : Deps(s) \subseteq plan.tasks
      BY <2>2 DEF Validate
    <3>4. Stages'
      BY <1>1, <1>2, <1>3, <1>5, <2>2, <3>3 DEF Stages
    <3>5. ResultSound'
      BY <2>2 DEF ResultSound
    <3> QED BY <1>4, <1>6, <3>1, <3>2, <3>4, <3>5 DEF SwarmInv
  <2> QED BY <1>7, <2>1, <2>2 DEF Decompose
<1>8. CASE RunSingle
  <2>1. Cardinality(plan.tasks) = 1 /\ main = "single" /\ plan.tasks \subseteq Tasks
    BY <1>8, PlanTypes DEF RunSingle, SwarmInv, SwarmType, Stages
  <2>2. /\ main' = "returned"
        /\ result' \in Results
    <3>1. /\ main' = "returned"
          /\ \/ result' = [success |-> FALSE, text |-> 0, error |-> "execution"]
             \/ result' = [success |-> FALSE, text |-> 0, error |-> "exception"]
             \/ \E t \in plan.tasks : \/ result' = [success |-> TRUE, text |-> t, error |-> "none"]
                                      \/ result' = [success |-> FALSE, text |-> t, error |-> "verification"]
      BY <1>8 DEF RunSingle, Return, NoText
    <3>2. \A t \in plan.tasks : t \in Nat
      BY <2>1 DEF Tasks
    <3>3. {"none", "execution", "exception", "verification"} \subseteq Errors /\ TRUE \in BOOLEAN /\ FALSE \in BOOLEAN
      BY DEF Errors
    <3>4. ASSUME NEW t \in plan.tasks
          PROVE /\ [success |-> TRUE, text |-> t, error |-> "none"] \in Results
                /\ [success |-> FALSE, text |-> t, error |-> "verification"] \in Results
      BY <3>2, <3>3, ResultTyped
    <3>5. /\ [success |-> FALSE, text |-> 0, error |-> "execution"] \in Results
          /\ [success |-> FALSE, text |-> 0, error |-> "exception"] \in Results
      <4>1. 0 \in Nat
        OBVIOUS
      <4> QED BY <3>3, <4>1, ResultTyped
    <3> QED BY <3>1, <3>4, <3>5, Zenon
  <2>3. SwarmType' /\ Waves' /\ Stages'
    BY <1>1, <1>2, <2>2 DEF SwarmInv, SwarmType, Places, Waves, Stages
  <2>4. ResultSound'
    BY <1>1, <2>1 DEF ResultSound
  <2> QED BY <1>4, <1>6, <2>3, <2>4 DEF SwarmInv
<1> QED BY <1>7, <1>8

LEMMA WaveSteps ==
  ASSUME SwarmInv, StartWave \/ WaveEnds
  PROVE SwarmInv'
<1>1. main \in {"waves", "gather"} /\ UNCHANGED <<plan, executor, verifies, status, cause, artifact, result>>
  BY DEF StartWave, WaveEnds
<1>2. \A s : (Deps(s))' = Deps(s)
  BY <1>1, PlanStays
<1>3. Acyclic' = Acyclic
  BY <1>1, PlanStays
<1>4. Agree'
  BY <1>1 DEF SwarmInv, Agree
<1>5. \A s \in Tasks : cause[s] # "unresolvable"
  BY <1>1 DEF SwarmInv, Stages
<1>6. RejectionExplained'
  BY <1>1, <1>5 DEF RejectionExplained
<1>7. CASE StartWave
  <2>1. main' = "gather" /\ wave' = ReadySubtasks /\ main = "waves"
    BY <1>7 DEF StartWave
  <2>2. ReadySubtasks \subseteq plan.tasks /\ plan.tasks \subseteq Tasks
    BY PlanTypes DEF ReadySubtasks, Pending, SwarmInv, SwarmType
  <2>3. SwarmType'
    BY <1>1, <2>1, <2>2 DEF SwarmInv, SwarmType, Places
  <2>4. ASSUME NEW s \in ReadySubtasks, NEW d \in Deps(s) PROVE status[d] = "done"
    <3>1. d \in Tasks /\ artifact[d] \in {"done", "consumed"}
      BY DEF ReadySubtasks, Runnable, Deps
    <3> QED BY <3>1 DEF SwarmInv, Agree
  <2>5. Waves'
    BY <1>1, <1>2, <2>1, <2>2, <2>4 DEF SwarmInv, Waves
  <2>6. Stages'
    BY <1>1, <1>2, <1>3, <2>1 DEF SwarmInv, Stages
  <2>7. ResultSound'
    BY <2>1 DEF ResultSound
  <2> QED BY <1>4, <1>6, <2>3, <2>5, <2>6, <2>7 DEF SwarmInv
<1>8. CASE WaveEnds
  <2>1. /\ main = "gather" /\ wave' = {} /\ main' = IF Pending = {} THEN "conclude" ELSE "waves"
        /\ \A s \in wave : status[s] \in {"done", "rejected"}
    BY <1>8 DEF WaveEnds
  <2>2. \A s \in Tasks : status[s] # "running"
    BY <2>1 DEF SwarmInv, Waves
  <2>3. SwarmType' /\ Waves'
    BY <1>1, <2>1, <2>2 DEF SwarmInv, SwarmType, Places, Waves
  <2>4. Pending = {} => \A s \in plan.tasks : status[s] \in {"done", "rejected"}
    <3>1. plan.tasks \subseteq Tasks
      BY PlanTypes DEF SwarmInv, SwarmType
    <3> QED BY <2>2, <3>1 DEF Pending, SwarmInv, SwarmType
  <2>5. Stages'
    BY <1>1, <1>2, <1>3, <1>5, <2>1, <2>4 DEF SwarmInv, Stages
  <2>6. ResultSound'
    BY <2>1 DEF ResultSound
  <2> QED BY <1>4, <1>6, <2>3, <2>5, <2>6 DEF SwarmInv
<1> QED BY <1>7, <1>8

\* What waits in vain waits for an artifact that was rejected, for a subtask that was, or for one that
\* waits in vain itself.
LEMMA WhyNotReady ==
  ASSUME SwarmInv, main = "waves", ReadySubtasks = {}, NEW s \in Pending
  PROVE \E d \in Deps(s) : \/ artifact[d] = "rejected"
                           \/ status[d] = "rejected" /\ cause[d] = "raised"
                           \/ d \in Pending
<1>1. s \in plan.tasks /\ ~Runnable(s) /\ plan.tasks \subseteq Tasks
  BY PlanTypes DEF ReadySubtasks, Pending, SwarmInv, SwarmType
<1>2. PICK d \in Deps(s) : artifact[d] \notin {"done", "consumed"}
  BY <1>1 DEF Runnable
<1>3. d \in plan.tasks /\ d \in Tasks
  BY <1>1, <1>2 DEF SwarmInv, Stages
<1>4. status[d] # "running" /\ cause[d] # "unresolvable"
  BY <1>3 DEF SwarmInv, Waves, Stages
<1>5. /\ status[d] \in {"pending", "running", "done", "rejected"} /\ cause[d] \in {"none", "raised", "unresolvable"}
      /\ artifact[d] \in {"absent", "done", "consumed", "rejected"}
      /\ status[d] = "rejected" <=> cause[d] # "none"
      /\ artifact[d] # "absent" <=> status[d] = "done"
  BY <1>3 DEF SwarmInv, SwarmType, Agree
<1>6. status[d] = "pending" => d \in Pending
  BY <1>3 DEF Pending
<1>7. artifact[d] = "rejected" \/ status[d] = "pending" \/ (status[d] = "rejected" /\ cause[d] = "raised")
  <2>1. artifact[d] = "absent" \/ artifact[d] = "rejected"
    BY <1>2, <1>5, Zenon
  <2>2. artifact[d] = "absent" => status[d] = "pending" \/ status[d] = "rejected"
    BY <1>4, <1>5, Zenon
  <2>3. status[d] = "rejected" => cause[d] = "raised"
    BY <1>4, <1>5, Zenon
  <2> QED BY <2>1, <2>2, <2>3, Zenon
<1> QED BY <1>6, <1>7

LEMMA BreakDeadlockSteps ==
  ASSUME SwarmInv, BreakDeadlock
  PROVE SwarmInv'
<1>1. /\ main = "waves" /\ ReadySubtasks = {} /\ main' = "conclude"
      /\ status' = [s \in Tasks |-> IF s \in Pending THEN "rejected" ELSE status[s]]
      /\ cause' = [s \in Tasks |-> IF s \in Pending THEN "unresolvable" ELSE cause[s]]
      /\ UNCHANGED <<plan, executor, verifies, artifact, wave, result>>
  BY DEF BreakDeadlock
<1>2. \A s : (Deps(s))' = Deps(s) /\ (Upstream(s))' = Upstream(s)
  BY <1>1, PlanStays
<1>3. Acyclic' = Acyclic
  BY <1>1, PlanStays
<1>4. plan.tasks \subseteq Tasks /\ Pending \subseteq plan.tasks
  BY PlanTypes DEF Pending, SwarmInv, SwarmType
<1>5. SwarmType'
  BY <1>1 DEF SwarmInv, SwarmType, Places
<1>6. Agree'
  BY <1>1, <1>4 DEF SwarmInv, SwarmType, Agree, Pending
<1>7. Waves'
  <2>1. \A s \in Tasks : status'[s] # "running"
    BY <1>1 DEF SwarmInv, Waves
  <2>2. wave' = {}
    BY <1>1 DEF SwarmInv, Waves
  <2> QED BY <2>1, <2>2 DEF Waves
<1>8. Stages'
  <2>1. \A s \in plan.tasks : status'[s] \in {"done", "rejected"}
    BY <1>1, <1>4 DEF SwarmInv, SwarmType, Waves, Pending
  <2> QED BY <1>1, <1>2, <1>3, <2>1 DEF SwarmInv, Stages
<1>9. RejectionExplained'
  <2> DEFINE Bad == {t \in Pending : \A u \in Upstream(t) : cause[u] # "raised" /\ artifact[u] # "rejected"}
  <2>1. Bad = {}
    <3> SUFFICES ASSUME Bad # {} PROVE FALSE
      OBVIOUS
    <3>1. Bad \subseteq plan.tasks
      BY <1>4
    <3>2. PICK t \in Bad : Deps(t) \cap Bad = {}
      <4> HIDE DEF Bad
      <4> QED BY <1>1, <3>1, SomeoneWaitsForNone DEF SwarmInv, SwarmType, Stages
    <3>3. t \in Tasks /\ t \in Pending
      BY <1>4
    <3>4. PICK d \in Deps(t) : \/ artifact[d] = "rejected"
                               \/ status[d] = "rejected" /\ cause[d] = "raised"
                               \/ d \in Pending
      BY <1>1, <3>3, WhyNotReady
    <3>5. d \in Upstream(t) /\ Upstream(d) \subseteq Upstream(t)
      BY <3>3, DepIsUpstream
    <3>6. d \in Bad
      BY <3>4, <3>5
    <3> QED BY <3>2, <3>6
  <2>2. ASSUME NEW s \in Tasks, cause'[s] = "unresolvable"
        PROVE \E u \in Upstream(s) : cause'[u] = "raised" \/ artifact[u] = "rejected"
    <3>1. s \in Pending
      BY <1>1, <2>2 DEF SwarmInv, Stages
    <3>2. PICK u \in Upstream(s) : cause[u] = "raised" \/ artifact[u] = "rejected"
      BY <2>1, <3>1
    <3>3. u \in Tasks
      BY DEF Upstream
    <3>4. cause[u] = "raised" => u \notin Pending
      BY <3>3 DEF SwarmInv, Agree, Pending
    <3> QED BY <1>1, <3>2, <3>3, <3>4
  <2> QED BY <1>1, <1>2, <2>2 DEF RejectionExplained
<1>10. ResultSound'
  BY <1>1 DEF ResultSound
<1> QED BY <1>5, <1>6, <1>7, <1>8, <1>9, <1>10 DEF SwarmInv

\* The text that is returned.
LEMMA FinalIsRight ==
  ASSUME SwarmInv
  PROVE \/ FinalOf = NoText /\ Done = {}
        \/ /\ FinalOf \in Done
           /\ \A s \in Done \ Needed : s <= FinalOf
           /\ FinalOf \in Needed => Done \subseteq Needed /\ Max(Done) = FinalOf
<1>1. Done \subseteq Tasks
  BY PlanTypes DEF Done, SwarmInv, SwarmType
<1>2. Sinks = Done \ Needed
  BY DEF Sinks, Needed
<1>3. CASE Done = {}
  BY <1>2, <1>3 DEF FinalOf
<1>4. CASE Done # {}
  <2>1. PICK from : from = (IF Sinks # {} THEN Sinks ELSE Done)
    OBVIOUS
  <2>2. from \subseteq Done /\ from \subseteq Tasks /\ from # {}
    BY <1>1, <1>2, <1>4, <2>1
  <2>3. Max(from) \in from /\ \A s \in from : Max(from) >= s
    BY <2>2, LastOfTasks
  <2>4. artifact[Max(from)] # "absent"
    BY <2>2, <2>3 DEF Done, SwarmInv, Agree
  <2>5. FinalOf = Max(from)
    BY <2>1, <2>2, <2>4 DEF FinalOf
  <2>6. \A s \in from : s <= Max(from)
    BY <2>2, <2>3 DEF Tasks
  <2> QED BY <1>2, <2>1, <2>2, <2>3, <2>5, <2>6
<1> QED BY <1>3, <1>4

LEMMA ConcludeSteps ==
  ASSUME SwarmInv, Conclude
  PROVE SwarmInv'
<1>1. /\ main = "conclude" /\ main' = "returned"
      /\ UNCHANGED <<plan, executor, verifies, status, cause, artifact, wave>>
      /\ \A s \in plan.tasks : status[s] \in {"done", "rejected"}
  BY DEF Conclude, Return, SwarmInv, Stages
<1>2. \A s : (Deps(s))' = Deps(s) /\ (Upstream(s))' = Upstream(s)
  BY <1>1, PlanStays
<1>3. Needed' = Needed /\ Done' = Done
  <2>1. Needed' = Needed
    BY <1>1, PlanStays
  <2>2. Done' = Done
    BY <1>1 DEF Done
  <2> QED BY <2>1, <2>2
<1>4. FinalOf \in Nat
  BY FinalIsRight, PlanTypes DEF NoText, Done, Tasks, SwarmInv, SwarmType
<1>5. /\ \/ (\A s \in plan.tasks : status[s] # "rejected") /\ result' = [success |-> TRUE, text |-> FinalOf, error |-> "none"]
         \/ result' = [success |-> FALSE, text |-> FinalOf, error |-> "rejected"]
         \/ result' = [success |-> FALSE, text |-> FinalOf, error |-> "verification"]
         \/ result' = [success |-> FALSE, text |-> 0, error |-> "exception"]
  BY DEF Conclude, Return, NoText
<1>6. SwarmType'
  <2>1. /\ [success |-> TRUE, text |-> FinalOf, error |-> "none"] \in Results
        /\ [success |-> FALSE, text |-> FinalOf, error |-> "rejected"] \in Results
        /\ [success |-> FALSE, text |-> FinalOf, error |-> "verification"] \in Results
        /\ [success |-> FALSE, text |-> 0, error |-> "exception"] \in Results
    <3>1. {"none", "rejected", "verification", "exception"} \subseteq Errors /\ TRUE \in BOOLEAN /\ FALSE \in BOOLEAN
      BY DEF Errors
    <3>2. 0 \in Nat
      OBVIOUS
    <3> QED BY <1>4, <3>1, <3>2, ResultTyped
  <2>2. result' \in Results
    BY <1>5, <2>1, Zenon
  <2> QED BY <1>1, <2>2 DEF SwarmInv, SwarmType, Places
<1>7. Agree' /\ Waves' /\ Stages'
  BY <1>1, <1>2 DEF SwarmInv, Agree, Waves, Stages
<1>8. RejectionExplained'
  BY <1>1, <1>2 DEF SwarmInv, RejectionExplained
<1>9. ResultSound'
  <2>1. result'.success => Done = plan.tasks
    BY <1>1, <1>5 DEF Done
  <2>2. result'.success \/ result'.error = "rejected" => result'.text = FinalOf
    BY <1>5
  <2> QED BY <1>1, <1>3, <2>1, <2>2, FinalIsRight DEF ResultSound
<1> QED BY <1>6, <1>7, <1>8, <1>9 DEF SwarmInv

\* What workers and their executors do, in a wave.
LEMMA WorkerSteps ==
  ASSUME SwarmInv, Uses \/ \E s \in Tasks : Worker(s)
  PROVE SwarmInv' /\ main = "gather" /\ UNCHANGED plan
<1>1. UNCHANGED <<plan, executor, verifies, wave, main, result>>
  BY DEF Uses, Consume, Reject, Worker, Acquire, Produce, Fail
<1>2. main = "gather"
  BY DEF Uses, Consume, Reject, Worker, Acquire, Produce, Fail, SwarmInv, Waves
<1>3. \A s : (Deps(s))' = Deps(s) /\ (Upstream(s))' = Upstream(s)
  BY <1>1, PlanStays
<1>4. Acyclic' = Acyclic
  BY <1>1, PlanStays
<1>5. ASSUME SwarmType', Agree', \A s \in Tasks : status'[s] = "running" => s \in wave,
             \A d \in Tasks : status[d] = "done" => status'[d] = "done",
             \A s \in Tasks : cause'[s] # "unresolvable"
      PROVE SwarmInv'
  <2>1. Waves'
    <3>1. \A s \in wave : s \in plan.tasks /\ \A d \in Deps(s) : d \in Tasks /\ status[d] = "done"
      BY DEF SwarmInv, Waves, Deps
    <3>2. wave' = wave /\ plan' = plan /\ main' = "gather"
      BY <1>1, <1>2
    <3> QED BY <1>3, <1>5, <3>1, <3>2 DEF Waves
  <2>2. Stages'
    BY <1>1, <1>2, <1>3, <1>4, <1>5 DEF SwarmInv, Stages
  <2>3. RejectionExplained' /\ ResultSound'
    BY <1>1, <1>2, <1>5 DEF RejectionExplained, ResultSound
  <2> QED BY <1>5, <2>1, <2>2, <2>3 DEF SwarmInv
<1>6. \A s \in Tasks : cause[s] # "unresolvable" /\ (status[s] = "running" => s \in wave)
  BY <1>2 DEF SwarmInv, Waves, Stages
<1>7. ASSUME NEW s \in Tasks, NEW d \in Tasks, Consume(s, d) \/ Reject(s, d) PROVE SwarmInv'
  <2>1. PICK a \in {"consumed", "rejected"} : artifact' = [artifact EXCEPT ![d] = a] /\ (a = "rejected" => executor = "rejecting")
    BY <1>7 DEF Consume, Reject
  <2>2. artifact[d] # "absent" /\ UNCHANGED <<status, cause>>
    BY <1>7 DEF Consume, Reject
  <2>3. SwarmType'
    BY <1>1, <2>1, <2>2 DEF SwarmInv, SwarmType
  <2>4. Agree'
    BY <1>1, <2>1, <2>2 DEF SwarmInv, SwarmType, Agree
  <2> QED BY <1>5, <1>6, <2>2, <2>3, <2>4
<1>8. ASSUME NEW s \in Tasks, Acquire(s) PROVE SwarmInv'
  <2>1. /\ s \in wave /\ status[s] = "pending" /\ status' = [status EXCEPT ![s] = "running"]
        /\ UNCHANGED <<cause, artifact>>
    BY <1>8 DEF Acquire
  <2>2. s \in plan.tasks
    BY <2>1 DEF SwarmInv, Waves
  <2>3. SwarmType' /\ Agree'
    BY <1>1, <2>1, <2>2 DEF SwarmInv, SwarmType, Agree
  <2>4. /\ \A t \in Tasks : status'[t] = "running" => t \in wave
        /\ \A d \in Tasks : status[d] = "done" => status'[d] = "done"
    BY <1>6, <2>1 DEF SwarmInv, SwarmType
  <2> QED BY <1>5, <1>6, <2>1, <2>3, <2>4
<1>9. ASSUME NEW s \in Tasks, Produce(s) PROVE SwarmInv'
  <2>1. /\ status[s] = "running" /\ status' = [status EXCEPT ![s] = "done"]
        /\ artifact' = [artifact EXCEPT ![s] = "done"] /\ UNCHANGED cause
    BY <1>9 DEF Produce
  <2>2. SwarmType' /\ Agree'
    BY <1>1, <2>1 DEF SwarmInv, SwarmType, Agree
  <2>3. /\ \A t \in Tasks : status'[t] = "running" => t \in wave
        /\ \A d \in Tasks : status[d] = "done" => status'[d] = "done"
    BY <1>6, <2>1 DEF SwarmInv, SwarmType
  <2> QED BY <1>5, <1>6, <2>1, <2>2, <2>3
<1>10. ASSUME NEW s \in Tasks, Fail(s) PROVE SwarmInv'
  <2>1. /\ status[s] = "running" /\ status' = [status EXCEPT ![s] = "rejected"]
        /\ cause' = [cause EXCEPT ![s] = "raised"] /\ UNCHANGED artifact
    BY <1>10 DEF Fail
  <2>2. SwarmType' /\ Agree'
    BY <1>1, <2>1 DEF SwarmInv, SwarmType, Agree
  <2>3. /\ \A t \in Tasks : status'[t] = "running" => t \in wave
        /\ \A d \in Tasks : status[d] = "done" => status'[d] = "done"
        /\ \A t \in Tasks : cause'[t] # "unresolvable"
    BY <1>6, <2>1 DEF SwarmInv, SwarmType
  <2> QED BY <1>5, <2>2, <2>3
<1> QED BY <1>1, <1>2, <1>7, <1>8, <1>9, <1>10 DEF Uses, Worker

LEMMA SwarmStep == SwarmInv /\ [Next]_vars => SwarmInv'
<1> SUFFICES ASSUME SwarmInv, [Next]_vars PROVE SwarmInv'
  OBVIOUS
<1>1. CASE UNCHANGED vars
  <2>1. plan' = plan /\ UNCHANGED <<executor, verifies, status, cause, artifact, wave, main, result>>
    BY <1>1 DEF vars
  <2>2. \A s : (Deps(s))' = Deps(s) /\ (Upstream(s))' = Upstream(s)
    BY <2>1, PlanStays
  <2>3. Acyclic' = Acyclic /\ Needed' = Needed /\ Done' = Done
    BY <2>1, PlanStays DEF Done
  <2>4. SwarmType' /\ Agree'
    BY <2>1 DEF SwarmInv, SwarmType, Agree
  <2>5. Waves' /\ Stages'
    BY <2>1, <2>2, <2>3 DEF SwarmInv, Waves, Stages
  <2>6. RejectionExplained' /\ ResultSound'
    BY <2>1, <2>2, <2>3 DEF SwarmInv, RejectionExplained, ResultSound
  <2> QED BY <2>4, <2>5, <2>6 DEF SwarmInv
<1> QED BY <1>1, BeforeWaves, WaveSteps, BreakDeadlockSteps, ConcludeSteps, WorkerSteps DEF Next, Orchestrate

LEMMA SwarmAlways == Spec => []SwarmInv
BY SwarmStart, SwarmStep, PTL DEF Spec

\* A subtask is called unresolvable only when something it needs, directly or not, raised or was rejected
\* (orchestrator.py:144), for every plan and however the workers interleave.
THEOREM RejectionIsExplained == Spec => []RejectionExplained
<1>1. SwarmInv => RejectionExplained
  BY DEF SwarmInv
<1> QED BY <1>1, SwarmAlways, PTL

\* What execute() returns of several subtasks: a verdict for each, success only if all are done, and the
\* text of the right one (orchestrator.py:172).
THEOREM ResultIsSound == Spec => []ResultSound
<1>1. SwarmInv => ResultSound
  BY DEF SwarmInv
<1> QED BY <1>1, SwarmAlways, PTL

-----------------------------------------------------------------------------
(* The refinement.                                                          *)

ph == [s \in Tasks |-> PhaseOf(s)]

LEMMA StartRefines == Init => Sched!SInit
BY DEF Init, Sched!SInit, PhaseOf

\* What is given up is downstream of a failure, unless an executor rejects.
LEMMA GivenUpAreDoomed ==
  ASSUME SwarmInv, main = "waves", ReadySubtasks = {}, executor # "rejecting"
  PROVE Pending \subseteq Sched!Doomed
<1>1. Pending \subseteq plan.tasks /\ plan.tasks \subseteq Tasks
  BY PlanTypes DEF Pending, SwarmInv, SwarmType
<1>2. ASSUME NEW S \in SUBSET Tasks,
             \A f \in Tasks : ph[f] = "failed" => Sched!ChildrenIn(f) \subseteq S,
             \A a \in S : Sched!ChildrenIn(a) \subseteq S
      PROVE Pending \subseteq S
  <2> DEFINE Bad == Pending \ S
  <2>1. SUFFICES ASSUME Bad # {} PROVE FALSE
    OBVIOUS
  <2>2. Bad \subseteq plan.tasks
    BY <1>1
  <2>3. PICK t \in Bad : Deps(t) \cap Bad = {}
    <3> HIDE DEF Bad
    <3> QED BY <2>1, <2>2, SomeoneWaitsForNone DEF SwarmInv, SwarmType, Stages
  <2>4. t \in Tasks /\ t \in Pending
    BY <1>1
  <2>5. PICK d \in Deps(t) : \/ artifact[d] = "rejected"
                             \/ status[d] = "rejected" /\ cause[d] = "raised"
                             \/ d \in Pending
    BY <2>4, WhyNotReady
  <2>6. d \in Tasks /\ t \in Sched!ChildrenIn(d)
    BY <2>4 DEF Deps, Sched!ChildrenIn
  <2>7. artifact[d] # "rejected"
    BY <2>6 DEF SwarmInv, Agree
  <2>8. d \notin S
    BY <1>2, <2>6
  <2>9. ~(status[d] = "rejected" /\ cause[d] = "raised")
    <3> SUFFICES ASSUME status[d] = "rejected", cause[d] = "raised" PROVE FALSE
      OBVIOUS
    <3>1. ph[d] = "failed"
      BY <2>6 DEF ph, PhaseOf
    <3> QED BY <1>2, <2>6, <3>1
  <2> QED BY <2>3, <2>5, <2>7, <2>8, <2>9
<1> QED BY <1>1, <1>2 DEF Sched!Doomed, ph

LEMMA StepRefines == SwarmInv /\ SwarmInv' /\ [Next]_vars => [Sched!SNext]_(Sched!svars)
<1> SUFFICES ASSUME SwarmInv, SwarmInv', [Next]_vars PROVE [Sched!SNext]_(Sched!svars)
  OBVIOUS
<1>1. plan' = plan /\ executor' = executor
  BY DEF vars, Next, Orchestrate, Decompose, RunSingle, StartWave, WaveEnds, BreakDeadlock, Conclude,
         Uses, Consume, Reject, Worker, Acquire, Produce, Fail
<1>2. ASSUME \A s \in Tasks : PhaseOf(s)' = PhaseOf(s) PROVE [Sched!SNext]_(Sched!svars)
  BY <1>1, <1>2 DEF Sched!svars
<1>3. CASE executor = "rejecting"
  BY <1>1, <1>2, <1>3 DEF PhaseOf
<1>4. CASE UNCHANGED <<status, cause>>
  BY <1>1, <1>2, <1>4 DEF PhaseOf
<1>5. ASSUME executor # "rejecting", BreakDeadlock PROVE [Sched!SNext]_(Sched!svars)
  <2>1. /\ main = "waves" /\ ReadySubtasks = {}
        /\ status' = [s \in Tasks |-> IF s \in Pending THEN "rejected" ELSE status[s]]
        /\ cause' = [s \in Tasks |-> IF s \in Pending THEN "unresolvable" ELSE cause[s]]
    BY <1>5 DEF BreakDeadlock
  <2>2. Pending \subseteq Sched!Doomed /\ Pending \subseteq Tasks
    BY <1>5, <2>1, GivenUpAreDoomed, PlanTypes DEF Pending, SwarmInv, SwarmType
  <2>3. \A s \in Tasks : PhaseOf(s)' = IF s \in Pending THEN "skipped" ELSE PhaseOf(s)
    <3>1. ASSUME NEW s \in Tasks, s \in Pending PROVE PhaseOf(s)' = "skipped"
      <4>1. status'[s] = "rejected" /\ cause'[s] = "unresolvable"
        BY <2>1, <3>1
      <4> QED BY <1>1, <1>5, <4>1 DEF PhaseOf
    <3>2. ASSUME NEW s \in Tasks, s \notin Pending PROVE PhaseOf(s)' = PhaseOf(s)
      <4>1. status'[s] = status[s] /\ cause'[s] = cause[s]
        BY <2>1, <3>2
      <4> QED BY <1>1, <4>1 DEF PhaseOf
    <3> QED BY <3>1, <3>2
  <2>4. \A s \in Pending : ph[s] = "waiting"
    BY <2>2 DEF ph, PhaseOf, Pending
  <2>5. CASE Pending = {}
    BY <1>2, <2>3, <2>5
  <2>6. CASE Pending # {}
    <3>1. Sched!SSkip
      BY <1>1, <2>2, <2>3, <2>4, <2>6 DEF Sched!SSkip, ph
    <3> QED BY <3>1 DEF Sched!SNext
  <2> QED BY <2>5, <2>6
<1>6. ASSUME executor # "rejecting", NEW s \in Tasks, Acquire(s) PROVE [Sched!SNext]_(Sched!svars)
  <2>1. s \in wave /\ status[s] = "pending" /\ status' = [status EXCEPT ![s] = "running"] /\ cause' = cause
    BY <1>6 DEF Acquire
  <2>2. \A p \in Sched!ParentsIn(s) : p \in Tasks /\ ph[p] = "succeeded"
    <3>1. ASSUME NEW p \in Sched!ParentsIn(s) PROVE p \in Tasks /\ status[p] = "done"
      BY <2>1 DEF Sched!ParentsIn, Deps, SwarmInv, Waves
    <3> QED BY <1>6, <3>1 DEF ph, PhaseOf
  <2>3. ph[s] = "waiting" /\ \A t \in Tasks : PhaseOf(t)' = IF t = s THEN "running" ELSE ph[t]
    BY <1>1, <1>6, <2>1 DEF ph, PhaseOf, SwarmInv, SwarmType
  <2>4. Sched!SStart(s)
    BY <1>1, <2>2, <2>3 DEF Sched!SStart, ph
  <2> QED BY <2>4 DEF Sched!SNext
<1>7. ASSUME executor # "rejecting", NEW s \in Tasks, Produce(s) \/ Fail(s) PROVE [Sched!SNext]_(Sched!svars)
  <2>1. /\ status[s] = "running"
        /\ \/ status' = [status EXCEPT ![s] = "done"] /\ cause' = cause
           \/ status' = [status EXCEPT ![s] = "rejected"] /\ cause' = [cause EXCEPT ![s] = "raised"]
    BY <1>7 DEF Produce, Fail
  <2>2. ASSUME NEW t \in Tasks, t # s PROVE PhaseOf(t)' = ph[t]
    <3>1. status'[t] = status[t] /\ cause'[t] = cause[t]
      <4>1. status \in [Tasks -> {"pending", "running", "done", "rejected"}] /\ cause \in [Tasks -> {"none", "raised", "unresolvable"}]
        BY DEF SwarmInv, SwarmType
      <4> QED BY <2>1, <2>2, <4>1
    <3>2. PhaseOf(t)' = PhaseOf(t)
      BY <1>1, <3>1 DEF PhaseOf
    <3> QED BY <3>2 DEF ph
  <2>3. PhaseOf(s)' \in {"succeeded", "failed"}
    <3>1. status'[s] = "done" \/ (status'[s] = "rejected" /\ cause'[s] = "raised")
      <4>1. status \in [Tasks -> {"pending", "running", "done", "rejected"}] /\ cause \in [Tasks -> {"none", "raised", "unresolvable"}]
        BY DEF SwarmInv, SwarmType
      <4> QED BY <2>1, <4>1
    <3> QED BY <1>1, <1>7, <3>1 DEF PhaseOf
  <2>4. ph[s] = "running"
    BY <1>7, <2>1 DEF ph, PhaseOf
  <2>5. Sched!SFinish(s)
    <3>1. PICK v \in {"succeeded", "failed"} : v = PhaseOf(s)'
      BY <2>3
    <3>2. ph' = [ph EXCEPT ![s] = v]
      BY <2>2, <3>1 DEF ph
    <3> QED BY <1>1, <2>4, <3>2 DEF Sched!SFinish, ph
  <2> QED BY <2>5 DEF Sched!SNext
<1> QED BY <1>3, <1>4, <1>5, <1>6, <1>7
    DEF vars, Next, Orchestrate, Decompose, RunSingle, StartWave, WaveEnds, Conclude, Uses, Consume, Reject, Worker

\* The waves implement the schedule: a subtask runs after all it depends on went well, gets one verdict,
\* and is given up only downstream of a failure, as long as no executor rejects what it was handed.
THEOREM SwarmImplementsSchedule == Spec => ImplementsSchedule
BY StartRefines, StepRefines, SwarmAlways, PTL DEF Spec, ImplementsSchedule, Sched!SSpec
====
