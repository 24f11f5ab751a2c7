--------------------------- MODULE HybridRouter ---------------------------
(***************************************************************************)
(* LocalHybridRouter.run (zilli/routing/router.py) with its PlannerBudget  *)
(* (zilli/envs/planner_budget.py) and ModelRegistry.generate               *)
(* (zilli/models/registry.py), as the server builds it: no response cache. *)
(* Requests are coroutines of one event loop.  An action is what a request *)
(* does between two awaits; the budget is asked before the planner is      *)
(* called and told after it has answered.                                  *)
(*                                                                         *)
(* X_y, just above X, is X with a plausible bug (a mutant).                *)
(***************************************************************************)
EXTENDS Integers, Sequences, FiniteSets

CONSTANTS Requests,     \* the requests that may be under way together
          Roles,        \* {"planner", "executor", "reviewer"}
          Models,       \* Models[role]: how many models the profile has for it
          WindowSize,   \* PlannerBudget(window_size=...)
          Num, Den      \* max_planner_ratio = Num / Den

ASSUME RouterAssumption ==
  /\ IsFiniteSet(Requests)
  /\ Roles = {"planner", "executor", "reviewer"}
  /\ Models \in [Roles -> Nat \ {0}]
  /\ WindowSize \in Nat \ {0}
  /\ Num \in Nat /\ Den \in Nat \ {0}

VARIABLES calls,   \* PlannerBudget._calls: the roles of the last calls
          saved,   \* the budget file: the window last written, or Torn
          phase,   \* what each request awaits
          model    \* the model of the role that is tried for it

vars == <<calls, saved, phase, model>>

\* A file that does not parse; no window has such a call.
Torn == <<"torn">>

\* What a request awaits: the answer of a model of this role.
RoleOf == [fast |-> "executor", fallback |-> "executor", plan |-> "planner",
           execute |-> "executor", review |-> "reviewer"]
Phases == {"idle"} \cup DOMAIN RoleOf

Init ==
  /\ calls = << >>
  /\ saved = << >>
  /\ phase = [r \in Requests |-> "idle"]
  /\ model = [r \in Requests |-> 1]

-----------------------------------------------------------------------------
(* PlannerBudget.                                                          *)

PlannerCalls(s) == Cardinality({i \in 1..Len(s) : s[i] = "planner"})

MayUsePlanner_NoRatio == TRUE
MayUsePlanner == calls = << >> \/ PlannerCalls(calls) * Den < Num * Len(calls)

\* deque(maxlen=WindowSize): a full window drops its oldest call.
Pushed(role) ==
  IF Len(calls) < WindowSize THEN Append(calls, role) ELSE Append(Tail(calls), role)

\* record_call: append, then write the file.  What goes wrong with the write
\* is swallowed: the file is then as it was or, truncated, does not parse.
RecordCall(role) == calls' = Pushed(role) /\ saved' \in {calls', saved, Torn}

-----------------------------------------------------------------------------
(* LocalHybridRouter.run.                                                  *)

Go(r, ph) == /\ phase' = [phase EXCEPT ![r] = ph]
             /\ model' = [model EXCEPT ![r] = 1]

\* The classifier (or force_full_route) chooses the lane; the full route asks
\* the budget first and falls back to the executor alone.
Arrive(r) ==
  /\ phase[r] = "idle"
  /\ \/ Go(r, "fast")
     \/ Go(r, IF MayUsePlanner THEN "plan" ELSE "fallback")
  /\ UNCHANGED <<calls, saved>>

\* ModelRegistry.generate: a model that is unhealthy, answers with an error or
\* raises makes room for the next one.
NextModel_Again(r) ==
  /\ phase[r] # "idle"
  /\ model' = [model EXCEPT ![r] = IF @ < Models[RoleOf[phase[r]]] THEN @ + 1 ELSE 1]
  /\ UNCHANGED <<calls, saved, phase>>
NextModel(r) ==
  /\ phase[r] # "idle"
  /\ model[r] < Models[RoleOf[phase[r]]]
  /\ model' = [model EXCEPT ![r] = @ + 1]
  /\ UNCHANGED <<calls, saved, phase>>

\* The last model has failed as well: an error result.
LastModel(r) == phase[r] # "idle" /\ model[r] = Models[RoleOf[phase[r]]]

\* A fast lane returns the result or its error, and tells the budget nothing.
FastEnds(r) ==
  /\ phase[r] = "fast"
  /\ Go(r, "idle")
  /\ UNCHANGED <<calls, saved>>

\* The fallback is recorded whether the executor answered or not.
FallbackEnds(r) ==
  /\ phase[r] = "fallback"
  /\ RecordCall("executor")
  /\ Go(r, "idle")

PlanEnds(r) ==
  /\ phase[r] = "plan"
  /\ RecordCall("planner")
  /\ Go(r, "execute")

ExecuteEnds(r) ==
  /\ phase[r] = "execute"
  /\ RecordCall("executor")
  /\ Go(r, "review")

\* plan() and execute() raise when no model answers: an error RouteResult.
Abandon(r) ==
  /\ phase[r] \in {"plan", "execute"}
  /\ LastModel(r)
  /\ Go(r, "idle")
  /\ UNCHANGED <<calls, saved>>

\* review() gives back the draft when the reviewer fails.
ReviewEnds(r) ==
  /\ phase[r] = "review"
  /\ Go(r, "idle")
  /\ UNCHANGED <<calls, saved>>

Answer(r) == \/ NextModel(r) \/ FastEnds(r) \/ FallbackEnds(r) \/ PlanEnds(r)
             \/ ExecuteEnds(r) \/ Abandon(r) \/ ReviewEnds(r)

\* The process ends and a new one starts on PlannerBudget.load; requests are
\* lost.  Path.write_text truncates before it writes, so a crash in record_call
\* leaves a file that does not parse, and load then starts from nothing.
Restart ==
  /\ phase' = [r \in Requests |-> "idle"]
  /\ model' = [r \in Requests |-> 1]
  /\ \/ UNCHANGED saved
     \/ /\ \E r \in Requests : phase[r] \in {"fallback", "plan", "execute"}
        /\ saved' = Torn
  /\ calls' = IF saved' = Torn THEN << >> ELSE saved'

Next == Restart \/ \E r \in Requests : Arrive(r) \/ Answer(r)

Spec == Init /\ [][Next]_vars

\* Every model answers, fails or times out (the backends have an HTTP timeout).
FairSpec == Spec /\ \A r \in Requests : WF_vars(Answer(r))

-----------------------------------------------------------------------------
(* Properties.                                                             *)

TypeOK ==
  /\ calls \in Seq({"planner", "executor"}) /\ Len(calls) <= WindowSize
  /\ saved # Torn => saved \in Seq({"planner", "executor"}) /\ Len(saved) <= WindowSize
  /\ phase \in [Requests -> Phases]
  /\ model \in [Requests -> Nat \ {0}]
  /\ \A r \in Requests : phase[r] # "idle" => model[r] <= Models[RoleOf[phase[r]]]

\* The budget is asked before an await and told after it, so the ratio can be
\* exceeded; but never by more than the requests that are under way together:
\* planner calls recorded and authorised stay within the limit plus that many.
OvershootBounded ==
  (PlannerCalls(calls) + Cardinality({r \in Requests : phase[r] = "plan"})) * Den
    <= Num * Len(calls) + Cardinality(Requests) * Den

\* Every request is answered, whatever the models do (unless the process
\* restarts, which ends it too).
Answered == \A r \in Requests : phase[r] # "idle" ~> phase[r] = "idle"
=============================================================================
