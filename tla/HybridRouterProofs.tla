------------------------ MODULE HybridRouterProofs ------------------------
(***************************************************************************)
(* For any number of requests under way, any window and any limit: the     *)
(* planner's share of the window exceeds its limit by no more than the     *)
(* requests that are under way together.                                   *)
(***************************************************************************)
EXTENDS HybridRouter, FiniteSetTheorems, TLAPS

Windows == Seq({"planner", "executor"})

PlannerSet(s) == {i \in 1..Len(s) : s[i] = "planner"}
Planning == {r \in Requests : phase[r] = "plan"}

\* A window with u planner calls on their way is within the limit, but for
\* the requests.
Within(s, u) ==
  (PlannerCalls(s) + u) * Den <= Num * Len(s) + Cardinality(Requests) * Den

\* A restart takes the window from the file: what is saved is bounded too.
IInv == /\ TypeOK
        /\ Within(calls, Cardinality(Planning))
        /\ saved # Torn => Within(saved, 0)

-----------------------------------------------------------------------------
(* Counting the planner's calls in a window.                               *)

LEMMA PlannerSetFinite ==
  ASSUME NEW s \in Windows
  PROVE  /\ IsFiniteSet(PlannerSet(s))
         /\ PlannerCalls(s) = Cardinality(PlannerSet(s))
         /\ PlannerCalls(s) \in Nat
<1>1. PlannerSet(s) \subseteq 1..Len(s)
  BY DEF PlannerSet
<1>2. IsFiniteSet(1..Len(s))
  BY FS_Interval DEF Windows
<1> QED BY <1>1, <1>2, FS_Subset, FS_CardinalityType DEF PlannerCalls, PlannerSet

\* A call more counts when it is the planner's.
LEMMA CallsAppend ==
  ASSUME NEW s \in Windows, NEW role \in {"planner", "executor"}
  PROVE  /\ Append(s, role) \in Windows
         /\ Len(Append(s, role)) = Len(s) + 1
         /\ PlannerCalls(Append(s, role)) =
              PlannerCalls(s) + IF role = "planner" THEN 1 ELSE 0
<1> DEFINE t == Append(s, role)
           n == Len(s) + 1
<1>1. t \in Windows /\ Len(t) = n /\ Len(s) \in Nat
  BY DEF Windows
<1>2. t[n] = role /\ \A i \in 1..Len(s) : t[i] = s[i]
  BY DEF Windows
<1>3. CASE role = "planner"
  <2>1. PlannerSet(t) = PlannerSet(s) \cup {n}
    BY <1>1, <1>2, <1>3 DEF PlannerSet
  <2>2. n \notin PlannerSet(s)
    BY <1>1 DEF PlannerSet
  <2> QED BY <1>1, <1>3, <2>1, <2>2, PlannerSetFinite, FS_AddElement
<1>4. CASE role = "executor"
  <2>1. PlannerSet(t) = PlannerSet(s)
    BY <1>1, <1>2, <1>4 DEF PlannerSet
  <2> QED BY <1>1, <1>4, <2>1, PlannerSetFinite
<1> QED BY <1>3, <1>4

\* Dropping the oldest call adds none.
LEMMA CallsTail ==
  ASSUME NEW s \in Windows, s # << >>
  PROVE  /\ Tail(s) \in Windows
         /\ Len(Tail(s)) = Len(s) - 1
         /\ PlannerCalls(Tail(s)) <= PlannerCalls(s)
<1> DEFINE t == Tail(s)
           f == [i \in PlannerSet(t) |-> i + 1]
<1>1. t \in Windows /\ Len(t) = Len(s) - 1 /\ Len(s) \in Nat
  BY DEF Windows
<1>2. \A i \in 1..Len(t) : t[i] = s[i + 1]
  BY <1>1 DEF Windows
<1>3. f \in Injection(PlannerSet(t), PlannerSet(s))
  <2>1. \A i \in PlannerSet(t) : i \in 1..Len(t) /\ i + 1 \in PlannerSet(s)
    BY <1>1, <1>2 DEF PlannerSet
  <2>2. f \in [PlannerSet(t) -> PlannerSet(s)]
    BY <2>1
  <2>3. \A i, j \in PlannerSet(t) : f[i] = f[j] => i = j
    BY <2>1
  <2> QED BY <2>2, <2>3 DEF Injection, IsInjective
<1>4. Cardinality(PlannerSet(t)) <= Cardinality(PlannerSet(s))
  BY <1>3, PlannerSetFinite, FS_Injection
<1> QED BY <1>1, <1>4, PlannerSetFinite

\* record_call: the window never gets shorter, and the planner's calls in it
\* are one more at most, when the call is the planner's.
LEMMA CallsPushed ==
  ASSUME calls \in Windows, Len(calls) <= WindowSize,
         NEW role \in {"planner", "executor"}
  PROVE  /\ Pushed(role) \in Windows /\ Len(Pushed(role)) <= WindowSize
         /\ Len(Pushed(role)) >= Len(calls)
         /\ PlannerCalls(Pushed(role)) <=
              PlannerCalls(calls) + IF role = "planner" THEN 1 ELSE 0
<1>0. Len(calls) \in Nat
  BY DEF Windows
<1>1. CASE Len(calls) < WindowSize
  <2>1. Pushed(role) = Append(calls, role)
    BY <1>1 DEF Pushed
  <2>2. /\ Pushed(role) \in Windows /\ Len(Pushed(role)) = Len(calls) + 1
        /\ PlannerCalls(Pushed(role)) =
             PlannerCalls(calls) + IF role = "planner" THEN 1 ELSE 0
    BY <2>1, CallsAppend
  <2>3. PlannerCalls(calls) \in Nat
    BY PlannerSetFinite
  <2> QED BY <1>0, <1>1, <2>2, <2>3, RouterAssumption
<1>2. CASE Len(calls) = WindowSize
  <2>1. calls # << >>
    BY <1>2, RouterAssumption DEF Windows
  <2>2. /\ Pushed(role) = Append(Tail(calls), role)
        /\ Tail(calls) \in Windows /\ Len(Tail(calls)) = Len(calls) - 1
        /\ PlannerCalls(Tail(calls)) <= PlannerCalls(calls)
    BY <1>2, <2>1, CallsTail, RouterAssumption DEF Pushed
  <2>3. /\ Pushed(role) \in Windows /\ Len(Pushed(role)) = Len(Tail(calls)) + 1
        /\ PlannerCalls(Pushed(role)) =
             PlannerCalls(Tail(calls)) + IF role = "planner" THEN 1 ELSE 0
    BY <2>2, CallsAppend
  <2>4. PlannerCalls(calls) \in Nat /\ PlannerCalls(Tail(calls)) \in Nat
    BY <2>2, PlannerSetFinite
  <2> QED BY <1>0, <1>2, <2>2, <2>3, <2>4
<1> QED BY <1>0, <1>1, <1>2, RouterAssumption

-----------------------------------------------------------------------------
(* Types.                                                                  *)

LEMMA InitType == Init => TypeOK
BY RouterAssumption DEF Init, TypeOK, Phases

LEMMA RolesOfPhases ==
  \A ph \in Phases \ {"idle"} : RoleOf[ph] \in {"planner", "executor", "reviewer"}
BY DEF Phases, RoleOf

\* Where a request goes, it starts with the first model.
LEMMA GoType ==
  ASSUME TypeOK, NEW r \in Requests, NEW ph \in Phases, Go(r, ph)
  PROVE  /\ phase' \in [Requests -> Phases]
         /\ model' \in [Requests -> Nat \ {0}]
         /\ \A q \in Requests : phase'[q] # "idle" => model'[q] <= Models[RoleOf[phase'[q]]]
<1> USE DEF TypeOK
<1>1. phase' = [phase EXCEPT ![r] = ph] /\ model' = [model EXCEPT ![r] = 1]
  BY DEF Go
<1>2. phase' \in [Requests -> Phases] /\ model' \in [Requests -> Nat \ {0}]
  BY <1>1
<1>3. ASSUME NEW q \in Requests, phase'[q] # "idle"
      PROVE  model'[q] <= Models[RoleOf[phase'[q]]]
  <2>1. CASE q = r
    <3>1. phase'[q] = ph /\ model'[q] = 1
      BY <1>1, <2>1
    <3>2. RoleOf[ph] \in Roles
      BY <1>3, <3>1, RolesOfPhases, RouterAssumption
    <3>3. Models[RoleOf[ph]] \in Nat \ {0}
      BY <3>2, RouterAssumption
    <3> QED BY <3>1, <3>3
  <2>2. CASE q # r
    BY <1>1, <1>3, <2>2
  <2> QED BY <2>1, <2>2
<1> QED BY <1>2, <1>3

LEMMA RecordType ==
  ASSUME TypeOK, NEW role \in {"planner", "executor"}, RecordCall(role)
  PROVE  /\ calls' \in Seq({"planner", "executor"}) /\ Len(calls') <= WindowSize
         /\ saved' # Torn => /\ saved' \in Seq({"planner", "executor"})
                            /\ Len(saved') <= WindowSize
<1>1. calls \in Windows /\ Len(calls) <= WindowSize
  BY DEF TypeOK, Windows
<1>2. calls' = Pushed(role) /\ saved' \in {calls', saved, Torn}
  BY DEF RecordCall
<1>3. Pushed(role) \in Windows /\ Len(Pushed(role)) <= WindowSize
  BY <1>1, CallsPushed
<1> QED BY <1>2, <1>3 DEF TypeOK, Windows

LEMMA TypeStep == TypeOK /\ [Next]_vars => TypeOK'
<1> SUFFICES ASSUME TypeOK, [Next]_vars PROVE TypeOK'
  OBVIOUS
<1> USE RouterAssumption
<1>p. \A ph \in {"idle", "fast", "fallback", "plan", "execute", "review"} : ph \in Phases
  BY DEF Phases, RoleOf
\* A handler goes to a phase and leaves the window alone, or records a call.
<1>a. ASSUME NEW r \in Requests, NEW ph \in Phases, Go(r, ph), UNCHANGED <<calls, saved>>
      PROVE  TypeOK'
  BY <1>a, GoType DEF TypeOK
<1>b. ASSUME NEW r \in Requests, NEW ph \in Phases, Go(r, ph),
             NEW role \in {"planner", "executor"}, RecordCall(role)
      PROVE  TypeOK'
  BY <1>b, GoType, RecordType DEF TypeOK
<1>1. ASSUME NEW r \in Requests, Arrive(r) PROVE TypeOK'
  BY <1>1, <1>a, <1>p DEF Arrive
<1>2. ASSUME NEW r \in Requests, NextModel(r) PROVE TypeOK'
  <2>1. /\ phase[r] \in Phases \ {"idle"}
        /\ model[r] \in Nat \ {0} /\ model[r] < Models[RoleOf[phase[r]]]
        /\ model' = [model EXCEPT ![r] = @ + 1]
        /\ UNCHANGED <<calls, saved, phase>>
    BY <1>2 DEF NextModel, TypeOK
  <2>2. Models[RoleOf[phase[r]]] \in Nat
    BY <2>1, RolesOfPhases
  <2>3. model' \in [Requests -> Nat \ {0}]
    BY <2>1 DEF TypeOK
  <2>4. ASSUME NEW q \in Requests, phase[q] # "idle"
        PROVE  model'[q] <= Models[RoleOf[phase[q]]]
    BY <2>1, <2>2, <2>4 DEF TypeOK
  <2> QED BY <2>1, <2>3, <2>4 DEF TypeOK
<1>3. ASSUME NEW r \in Requests, FastEnds(r) \/ Abandon(r) \/ ReviewEnds(r) PROVE TypeOK'
  BY <1>3, <1>a, <1>p DEF FastEnds, Abandon, ReviewEnds
<1>4. ASSUME NEW r \in Requests, FallbackEnds(r) PROVE TypeOK'
  BY <1>4, <1>b, <1>p DEF FallbackEnds
<1>5. ASSUME NEW r \in Requests, PlanEnds(r) PROVE TypeOK'
  BY <1>5, <1>b, <1>p DEF PlanEnds
<1>6. ASSUME NEW r \in Requests, ExecuteEnds(r) PROVE TypeOK'
  BY <1>6, <1>b, <1>p DEF ExecuteEnds
<1>7. CASE Restart
  <2>1. phase' \in [Requests -> Phases] /\ \A r \in Requests : phase'[r] = "idle"
    BY <1>7, <1>p DEF Restart
  <2>2. model' \in [Requests -> Nat \ {0}]
    BY <1>7 DEF Restart
  <2>3. calls' \in Seq({"planner", "executor"}) /\ Len(calls') <= WindowSize
    BY <1>7 DEF Restart, TypeOK
  <2> QED BY <1>7, <2>1, <2>2, <2>3 DEF Restart, TypeOK
<1>8. CASE UNCHANGED vars
  BY <1>8 DEF vars, TypeOK
<1> QED BY <1>1, <1>2, <1>3, <1>4, <1>5, <1>6, <1>7, <1>8 DEF Next, Answer

\* Requests, window and file keep their types, the window its size and every
\* request a model its role has.
THEOREM TypeCorrect == Spec => []TypeOK
<1> QED BY InitType, TypeStep, PTL DEF Spec

-----------------------------------------------------------------------------
(* The planner's share.                                                    *)

LEMMA PlanningCount ==
  /\ IsFiniteSet(Planning) /\ IsFiniteSet(Requests)
  /\ Cardinality(Planning) \in Nat /\ Cardinality(Requests) \in Nat
  /\ Cardinality(Planning) <= Cardinality(Requests)
<1>1. Planning \subseteq Requests
  BY DEF Planning
<1> QED BY <1>1, FS_Subset, FS_CardinalityType, RouterAssumption

\* Whatever the factors, a smaller one gives a smaller product.
LEMMA Monotone ==
  ASSUME NEW a \in Nat, NEW b \in Nat, NEW f \in Nat, a <= b
  PROVE  a * f <= b * f /\ f * a <= f * b /\ a * f \in Nat /\ f * b \in Nat
<1>1. (b - a) * f >= 0
  OBVIOUS
<1> QED BY <1>1

\* The bound is kept when no call of the planner is added, authorised ones
\* included, and the window does not get shorter.
LEMMA WithinKept ==
  ASSUME NEW s \in Windows, NEW t \in Windows, NEW u \in Nat, NEW v \in Nat,
         Within(s, u), Len(t) >= Len(s),
         PlannerCalls(t) + v <= PlannerCalls(s) + u
  PROVE  Within(t, v)
<1> DEFINE k == Cardinality(Requests)
<1>1. /\ PlannerCalls(s) \in Nat /\ PlannerCalls(t) \in Nat
      /\ Len(s) \in Nat /\ Len(t) \in Nat
  BY PlannerSetFinite DEF Windows
<1>2. (PlannerCalls(t) + v) * Den <= (PlannerCalls(s) + u) * Den
  BY <1>1, Monotone, RouterAssumption
<1>3. Num * Len(s) <= Num * Len(t)
  BY <1>1, Monotone, RouterAssumption
<1>4. /\ (PlannerCalls(t) + v) * Den \in Nat /\ (PlannerCalls(s) + u) * Den \in Nat
      /\ Num * Len(s) \in Nat /\ Num * Len(t) \in Nat /\ k * Den \in Nat
  BY <1>1, PlanningCount, RouterAssumption, SMTT(30)
<1> HIDE DEF k
<1>5. (PlannerCalls(s) + u) * Den <= Num * Len(s) + k * Den
  BY DEF Within, k
<1>6. (PlannerCalls(t) + v) * Den <= Num * Len(t) + k * Den
  BY <1>2, <1>3, <1>4, <1>5
<1> QED BY <1>6 DEF Within, k

\* When the budget lets a request through, every request may go at once.
LEMMA WithinAuthorised ==
  ASSUME calls \in Windows, MayUsePlanner, NEW v \in Nat, v <= Cardinality(Requests)
  PROVE  Within(calls, v)
<1> DEFINE k == Cardinality(Requests)
           n == PlannerCalls(calls)
<1>1. n \in Nat /\ Len(calls) \in Nat /\ k \in Nat
  BY PlannerSetFinite, PlanningCount DEF Windows
<1>2. v * Den <= k * Den
  BY <1>1, Monotone, RouterAssumption
<1>3. n * Den <= Num * Len(calls)
  <2>1. CASE calls = << >>
    <3>1. PlannerSet(calls) = {}
      BY <2>1 DEF PlannerSet
    <3>2. n = 0
      BY <3>1, PlannerSetFinite, FS_EmptySet
    <3>3. Num * Len(calls) \in Nat
      BY <1>1, RouterAssumption
    <3> QED BY <3>2, <3>3, RouterAssumption
  <2>2. CASE n * Den < Num * Len(calls)
    <3>1. n * Den \in Nat /\ Num * Len(calls) \in Nat
      BY <1>1, RouterAssumption
    <3> QED BY <2>2, <3>1
  <2> QED BY <2>1, <2>2 DEF MayUsePlanner
<1>4. (n + v) * Den = n * Den + v * Den
  BY <1>1, RouterAssumption
<1>5. /\ n * Den \in Nat /\ v * Den \in Nat
      /\ Num * Len(calls) \in Nat /\ k * Den \in Nat
  BY <1>1, RouterAssumption
<1> HIDE DEF n, k
<1>6. (n + v) * Den <= Num * Len(calls) + k * Den
  BY <1>2, <1>3, <1>4, <1>5
<1> QED BY <1>6 DEF Within, n, k

\* The empty window is within every limit.
LEMMA WithinEmpty ==
  ASSUME NEW v \in Nat, v <= Cardinality(Requests)
  PROVE  Within(<< >>, v)
<1>1. PlannerSet(<< >>) = {} /\ << >> \in Windows
  BY DEF PlannerSet, Windows
<1>2. PlannerCalls(<< >>) = 0
  BY <1>1, PlannerSetFinite, FS_EmptySet
<1>3. v * Den <= Cardinality(Requests) * Den
  BY PlanningCount, Monotone, RouterAssumption
<1>4. Num * Len(<< >>) = 0 /\ 0 + v = v
  BY RouterAssumption
<1>5. Cardinality(Requests) * Den \in Nat
  BY PlanningCount, RouterAssumption
<1> QED BY <1>2, <1>3, <1>4, <1>5 DEF Within

LEMMA InitIInv == Init => IInv
<1> SUFFICES ASSUME Init PROVE IInv
  OBVIOUS
<1>1. Planning = {}
  BY DEF Init, Planning
<1>2. Cardinality(Planning) = 0
  BY <1>1, FS_EmptySet
<1> QED BY <1>2, InitType, WithinEmpty, PlanningCount DEF Init, IInv

LEMMA Step == IInv /\ [Next]_vars => IInv'
<1> SUFFICES ASSUME IInv, [Next]_vars
             PROVE  /\ Within(calls', Cardinality(Planning'))
                    /\ saved' # Torn => Within(saved', 0)
  BY TypeStep DEF IInv, Within
<1> USE RouterAssumption
<1> DEFINE u == Cardinality(Planning)
           v == Cardinality(Planning')
           Goal == Within(calls', v) /\ (saved' # Torn => Within(saved', 0))
<1>0. /\ TypeOK /\ TypeOK'
      /\ calls \in Windows /\ calls' \in Windows
      /\ u \in Nat /\ v \in Nat /\ v <= Cardinality(Requests)
  <2>1. Planning' \subseteq Requests
    BY DEF Planning
  <2> QED BY <2>1, TypeStep, PlanningCount, FS_Subset, FS_CardinalityType
          DEF IInv, TypeOK, Windows
<1>a. Within(calls, u) /\ (saved # Torn => Within(saved, 0))
  BY DEF IInv
\* A request that goes elsewhere than to the planner authorises nothing.
<1>b. ASSUME NEW r \in Requests, NEW ph \in Phases \ {"plan"}, Go(r, ph)
      PROVE  v = IF phase[r] = "plan" THEN u - 1 ELSE u
  <2>1. phase' = [phase EXCEPT ![r] = ph]
    BY <1>b DEF Go
  <2>2. Planning' = Planning \ {r}
    BY <1>0, <2>1 DEF Planning, TypeOK
  <2>3. r \in Planning <=> phase[r] = "plan"
    BY DEF Planning
  <2> QED BY <2>2, <2>3, PlanningCount, FS_RemoveElement
\* Nor does one that leaves the window alone disturb the bound.
<1>c. ASSUME UNCHANGED <<calls, saved>>, v <= u PROVE Goal
  <2>1. PlannerCalls(calls) \in Nat
    BY <1>0, PlannerSetFinite
  <2>2. PlannerCalls(calls) + v <= PlannerCalls(calls) + u /\ Len(calls) \in Nat
    BY <1>0, <1>c, <2>1 DEF Windows
  <2>3. Within(calls, v)
    BY <1>0, <1>a, <2>2, WithinKept
  <2> QED BY <1>a, <1>c, <2>3
\* A call recorded: the planner's was authorised, and no longer is.
<1>d. ASSUME NEW role \in {"planner", "executor"}, RecordCall(role),
             v + (IF role = "planner" THEN 1 ELSE 0) <= u
      PROVE  Goal
  <2>1. calls' = Pushed(role) /\ saved' \in {calls', saved, Torn}
    BY <1>d DEF RecordCall
  <2>2. /\ Len(calls') >= Len(calls)
        /\ PlannerCalls(calls') <= PlannerCalls(calls) + IF role = "planner" THEN 1 ELSE 0
    BY <1>0, <2>1, CallsPushed DEF TypeOK
  <2>3. PlannerCalls(calls) \in Nat /\ PlannerCalls(calls') \in Nat
    BY <1>0, PlannerSetFinite
  <2>4. /\ PlannerCalls(calls') + v <= PlannerCalls(calls) + u
        /\ PlannerCalls(calls') + 0 <= PlannerCalls(calls) + u
    BY <1>0, <1>d, <2>2, <2>3
  <2>5. Within(calls', v) /\ Within(calls', 0)
    BY <1>0, <1>a, <2>2, <2>4, WithinKept
  <2> QED BY <1>a, <2>1, <2>5
<1> HIDE DEF Goal
<1>1. ASSUME NEW r \in Requests, Arrive(r) PROVE Goal
  <2>1. CASE MayUsePlanner /\ Go(r, "plan")
    BY <1>0, <1>1, <1>a, <2>1, WithinAuthorised DEF Arrive, Goal
  <2>2. CASE Go(r, "fast")
    BY <1>0, <1>1, <1>b, <1>c, <2>2 DEF Arrive, Phases, RoleOf
  <2>3. CASE Go(r, "fallback")
    BY <1>0, <1>1, <1>b, <1>c, <2>3 DEF Arrive, Phases, RoleOf
  <2> QED BY <1>1, <2>1, <2>2, <2>3 DEF Arrive
<1>2. ASSUME NEW r \in Requests, NextModel(r) PROVE Goal
  <2>1. Planning' = Planning
    BY <1>2 DEF NextModel, Planning
  <2> QED BY <1>0, <1>2, <1>c, <2>1 DEF NextModel
<1>3. ASSUME NEW r \in Requests, FastEnds(r) \/ Abandon(r) \/ ReviewEnds(r) PROVE Goal
  BY <1>0, <1>3, <1>b, <1>c DEF FastEnds, Abandon, ReviewEnds, Phases
<1>4. ASSUME NEW r \in Requests, FallbackEnds(r) PROVE Goal
  BY <1>0, <1>4, <1>b, <1>d DEF FallbackEnds, Phases
<1>5. ASSUME NEW r \in Requests, PlanEnds(r) PROVE Goal
  BY <1>0, <1>5, <1>b, <1>d DEF PlanEnds, Phases, RoleOf
<1>6. ASSUME NEW r \in Requests, ExecuteEnds(r) PROVE Goal
  BY <1>0, <1>6, <1>b, <1>d DEF ExecuteEnds, Phases, RoleOf
<1>7. ASSUME Restart PROVE Goal
  <2>1. Planning' = {}
    BY <1>7 DEF Restart, Planning
  <2>2. v = 0
    BY <2>1, FS_EmptySet
  <2>3. saved' # Torn => Within(saved', 0)
    BY <1>7, <1>a DEF Restart
  <2>4. Within(calls', 0)
    BY <1>7, <2>3, WithinEmpty, PlanningCount DEF Restart
  <2> QED BY <2>2, <2>3, <2>4 DEF Goal
<1>8. ASSUME UNCHANGED vars PROVE Goal
  BY <1>0, <1>8, <1>c DEF vars, Planning
<1>9. Goal
  BY <1>1, <1>2, <1>3, <1>4, <1>5, <1>6, <1>7, <1>8 DEF Next, Answer
<1> QED BY <1>9 DEF Goal

\* The planner's calls in the window, with those already let through, exceed
\* max_planner_ratio by no more than one call for each request that may be
\* under way: asking before the call and recording after it does not compound,
\* and neither a full window nor a restart from the file changes that.
THEOREM OvershootIsBounded == Spec => []OvershootBounded
<1>1. IInv => OvershootBounded
  BY DEF IInv, Within, OvershootBounded, Planning
<1> QED BY <1>1, InitIInv, Step, PTL DEF Spec

=============================================================================
