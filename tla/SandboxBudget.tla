--------------------------- MODULE SandboxBudget ---------------------------
(***************************************************************************)
(* The PrivacySandbox: its life, and the privacy budget that its queries   *)
(* are charged to. A query is checked, its handler runs, and only then is  *)
(* it charged and logged; meanwhile other threads, and the handler itself, *)
(* may begin more of them. Epsilon is counted in whole units.              *)
(***************************************************************************)
EXTENDS DataPrivacy, Sequences

CONSTANTS Epsilon,      \* total_epsilon
          MaxQueries,   \* max_queries
          MinClass,     \* data_class_min
          Network,      \* network_access
          Queries,      \* the texts of the queries
          Costs,        \* what a query may ask to be charged
          Callers       \* calls of execute under way at once

ASSUME SandboxAssumption ==
  Epsilon \in Nat /\ MaxQueries \in Nat /\ Costs \subseteq Nat /\ IsFiniteSet(Callers)

VARIABLES
  box,        \* _status, the budget's used_epsilon and query_count, _executions
  underway,   \* for each caller: nothing, the query whose handler runs, or the one charged and not logged
  account       \* history: what was charged to queries begun beside another, and to queries never logged

sandboxVars == <<box, underway, account>>

NoQuery == [phase |-> "none"]

SandboxInit ==
  /\ box = [status |-> "created", used |-> 0, queries |-> 0, executions |-> <<>>]
  /\ underway = [c \in Callers |-> NoQuery]
  /\ account = [besideUnits |-> 0, beside |-> 0, lostUnits |-> 0, lost |-> 0]

Activate == box.status # "active" /\ box' = [box EXCEPT !.status = "active"] /\ UNCHANGED <<underway, account>>
Destroy == box' = [box EXCEPT !.status = "destroyed"] /\ UNCHANGED <<underway, account>>

Exhausted == box.used >= Epsilon \/ box.queries >= MaxQueries
InBudget_Exhausted(epsilon) == ~Exhausted
\* _check_budget
InBudget(epsilon) == ~Exhausted /\ box.used + epsilon <= Epsilon

\* What a query must meet before its handler sees it; a refusal leaves no trace.
Admissible(text) ==
  LET level == ClassOf(text, 0) IN level <= MinClass /\ (Network \/ ~RequiresSanitization(level))

\* execute, up to the handler. alone: no other query is under way.
BeginQuery(c, text, epsilon) ==
  /\ underway[c] = NoQuery
  /\ box.status = "active" /\ InBudget(epsilon) /\ Admissible(text)
  /\ underway' = [underway EXCEPT ![c] =
       [phase |-> "running", text |-> text, epsilon |-> epsilon, alone |-> \A d \in Callers : underway[d] = NoQuery]]
  /\ UNCHANGED <<box, account>>

\* The handler raises, or has timed out and ends: no charge, and the sandbox fails, a destroyed one too.
HandlerRaises(c) ==
  /\ underway[c].phase = "running"
  /\ box' = [box EXCEPT !.status = "failed"]
  /\ underway' = [underway EXCEPT ![c] = NoQuery]
  /\ UNCHANGED account

\* The handler returns: the two counters, between which no other thread runs. Nothing is checked again.
Charge(c) ==
  LET q == underway[c] IN
  /\ q.phase = "running"
  /\ box' = [box EXCEPT !.used = @ + q.epsilon, !.queries = @ + 1]
  /\ underway' = [underway EXCEPT ![c].phase = "charged"]
  /\ account' = IF q.alone THEN account ELSE [account EXCEPT !.besideUnits = @ + q.epsilon, !.beside = @ + 1]

\* The noise is added and the execution logged.
LogCharged(c) ==
  LET q == underway[c] IN
  /\ q.phase = "charged"
  /\ box' = [box EXCEPT !.executions = Append(@, [text |-> q.text, epsilon |-> q.epsilon])]
  /\ underway' = [underway EXCEPT ![c] = NoQuery]
  /\ UNCHANGED account

\* The noise raises (the result is an integer that no float holds): charged, and never logged.
NoiseRaises(c) ==
  LET q == underway[c] IN
  /\ q.phase = "charged"
  /\ underway' = [underway EXCEPT ![c] = NoQuery]
  /\ account' = [account EXCEPT !.lostUnits = @ + q.epsilon, !.lost = @ + 1]
  /\ UNCHANGED box

SandboxNext ==
  \/ Activate \/ Destroy
  \/ \E c \in Callers :
       \/ \E text \in Queries, epsilon \in Costs : BeginQuery(c, text, epsilon)
       \/ HandlerRaises(c) \/ Charge(c) \/ LogCharged(c) \/ NoiseRaises(c)

SandboxSpec == SandboxInit /\ [][SandboxNext]_sandboxVars

-----------------------------------------------------------------------------
(* Properties *)

\* The units of budget of some entries, by entry: those of the audit log, and those still to be logged.
Units(entries, entry) == {p \in entries \X (1 .. Epsilon) : p[2] <= entry[p[1]].epsilon}
Charges == Units(DOMAIN box.executions, box.executions)
AwaitLog == {c \in Callers : underway[c].phase = "charged"}
Pending == Units(AwaitLog, underway)

\* Queries that begin while none is under way stay within the budget and the number of queries: whatever
\* exceeds them was charged to queries begun beside another, each of which passed the check before the
\* other was charged (sandbox.py:125, 177).
OverspentBeside ==
  box.used <= Epsilon + account.besideUnits /\ box.queries <= MaxQueries + account.beside

\* What the audit log adds up to, with what is still to be logged and what a failing noise kept out of it,
\* is what the budget was charged, through failures, destruction and reactivation; and no query in it was
\* of a class the sandbox is closed to (sandbox.py:136-146, 177-192).
LogAddsUp ==
  /\ box.used = Cardinality(Charges) + Cardinality(Pending) + account.lostUnits
  /\ box.queries = Len(box.executions) + Cardinality(AwaitLog) + account.lost
  /\ \A i \in DOMAIN box.executions : Admissible(box.executions[i].text)

\* The budget is charged for what was run, and exceeded only where queries overlap.
BudgetKept == OverspentBeside /\ LogAddsUp
=============================================================================
